---- MODULE Spec2Model ----
(***************************************************************************)
(* Model of the clinical-trial document chunker                            *)
(* (database_creation/chunker.py, class ClinicalTrialChunker) and of the   *)
(* eligibility matcher used by the tool layer (src/server.py).             *)
(*                                                                         *)
(* Python strings are sequences of one-character strings, so that          *)
(* searching, slicing, stripping, splitting and formatting are computed    *)
(* character by character, as the code computes them.                      *)
(***************************************************************************)
EXTENDS Integers, Sequences, FiniteSets, TLC

VARIABLES
    argText,     \* the text argument handed to ClinicalTrialChunker(...)
    argMaxLen,   \* the max_length argument
    status,      \* "new" | "constructed" | "failed": outcome of __init__
    raised,      \* exception raised by the latest operation, "none" if none
    text,        \* self.text
    max_length,  \* self.max_length
    sections,    \* self.sections
    parsed,      \* whether parse() has run on this object
    chunks,      \* the list returned by the latest create_chunks()
    prevChunks,  \* the list returned by the call before that
    calls,       \* number of create_chunks() calls made so far
    fresh,       \* the latest create_chunks() read the current section map
    sameInput,   \* the latest two create_chunks() read the same section map
    mReq,        \* matcher: the required conditions handed to match()
    mThreshold,  \* matcher: the similarity threshold, in hundredths
    mObs,        \* matcher: observed conditions of the latest match()
    mResult,     \* matcher: what the latest match() returned ("none" before)
    mCache,      \* matcher: the embedding cache, normalized string -> vector
    mEmbedded,   \* matcher: the strings sent to the embedding collaborator, in order
    mCalls,      \* matcher: number of match() calls made so far
    mPool,       \* matcher: the candidate pool of the latest patient search
    mLimit,      \* matcher: the limit of the latest patient search
    mFound,      \* matcher: the patient ids that search returned (None before)
    cRequests,   \* concurrent match requests: id -> inputs, position, result
    cWritten,    \* cache keys some concurrent request has written
    tRequest,    \* tool layer: the request being served ({} before)
    tResponse,   \* tool layer: the payload the tool returned ({} before)
    tSearches,   \* tool layer: each retrieval call made, arguments and outcome
    tDbCalls,    \* tool layer: each patient lookup made, arguments and outcome
    tEscaped,    \* tool layer: the exception that left the tool ("none" if none)
    fAvailable,  \* feasibility: the number of matched patients
    fTarget,     \* feasibility: the target enrollment, doubled
    fResult,     \* feasibility: the level and risk computed ({} before)
    nData,       \* create_nodes: the documents of the input file, in file order
    nSampleSize, \* create_nodes: SAMPLE_SIZE
    nSampled,    \* create_nodes: the documents random.sample selected, in order
    nOutcome     \* create_nodes: the nodes it returned or the exception raised ({} before)

chunkerVars == <<argText, argMaxLen, status, raised, text, max_length, sections,
                 parsed, chunks, prevChunks, calls, fresh, sameInput>>
matcherVars == <<mReq, mThreshold, mObs, mResult, mCache, mEmbedded, mCalls>>
poolVars == <<mPool, mLimit, mFound>>
concVars == <<cRequests, cWritten>>
toolVars == <<tRequest, tResponse, tSearches, tDbCalls, tEscaped>>
feasVars == <<fAvailable, fTarget, fResult>>
nodeVars == <<nData, nSampleSize, nSampled, nOutcome>>
vars == <<chunkerVars, matcherVars, poolVars, concVars, toolVars, feasVars, nodeVars>>

(***************************************************************************)
(* Bounds of the model.                                                    *)
(***************************************************************************)
MaxCalls == 2      \* create_chunks() calls made on one object
MaxWords == 3      \* tokens in the longest generated scalar section
MaxOutcomes == 3   \* entries in the longest generated outcome list
MaxRequired == 2   \* required conditions of one trial
MaxObserved == 2   \* observed conditions of one patient
MaxMatchCalls == 2 \* match() calls made against one set of required conditions
MaxPool == 3       \* candidates in one pool
MaxLimit == 3      \* the largest limit a caller passes
MaxRequests == 2   \* match requests running concurrently

(***************************************************************************)
(* Characters and string primitives (Python str).                          *)
(***************************************************************************)
Min(S) == CHOOSE x \in S : \A y \in S : x <= y

Whitespace == {" ", "\n", "\t"}

Rep(c, n) == [i \in 1..n |-> c]

\* s[a:b] for 1-based inclusive bounds, empty when a > b
Slice(s, a, b) == IF a > b THEN <<>> ELSE SubSeq(s, a, b)

\* positions p >= from at which sub occurs in s
Occurrences(s, sub, from) ==
    {p \in from..(Len(s) - Len(sub) + 1) :
        /\ s[p] = sub[1]
        /\ SubSeq(s, p, p + Len(sub) - 1) = sub}

\* `sub in s[from:]`
Contains(s, sub, from) == Occurrences(s, sub, from) # {}

\* s.index(sub, from): 1-based position, 0 standing for the ValueError
Index(s, sub, from) ==
    IF Contains(s, sub, from) THEN Min(Occurrences(s, sub, from)) ELSE 0

\* s.strip()
Strip(s) ==
    LET keep == {p \in 1..Len(s) : s[p] \notin Whitespace}
    IN  IF keep = {} THEN <<>>
        ELSE SubSeq(s, Min(keep), CHOOSE x \in keep : \A y \in keep : y <= x)

\* s.replace(old, ""): every non-overlapping occurrence, left to right
RECURSIVE Remove(_, _)
Remove(s, old) ==
    LET p == Index(s, old, 1)
    IN  IF p = 0 THEN s
        ELSE Slice(s, 1, p - 1) \o Remove(Slice(s, p + Len(old), Len(s)), old)

\* s.split('\n')[0]
FirstLine(s) ==
    LET p == Index(s, <<"\n">>, 1)
    IN  IF p = 0 THEN s ELSE Slice(s, 1, p - 1)

\* s.split(): the maximal runs of non-whitespace characters
RECURSIVE SplitWords(_)
SplitWords(s) ==
    LET starts == {p \in 1..Len(s) : s[p] \notin Whitespace}
    IN  IF starts = {} THEN <<>>
        ELSE LET a == Min(starts)
                 stops == {p \in a..Len(s) : s[p] \in Whitespace}
                 b == IF stops = {} THEN Len(s) + 1 ELSE Min(stops)
             IN  <<SubSeq(s, a, b - 1)>> \o SplitWords(Slice(s, b, Len(s)))

\* sep.join(words)
RECURSIVE Join(_, _)
Join(words, sep) ==
    IF words = <<>> THEN <<>>
    ELSE IF Len(words) = 1 THEN words[1]
    ELSE words[1] \o sep \o Join(Tail(words), sep)

\* ''.join(parts)
RECURSIVE Concat(_)
Concat(parts) == IF parts = <<>> THEN <<>> ELSE parts[1] \o Concat(Tail(parts))

(***************************************************************************)
(* Literal markers and labels of chunker.py.                               *)
(***************************************************************************)
TitleSp == <<"T", "i", "t", "l", "e", ":", " ">>
TitleNoSp == <<"T", "i", "t", "l", "e", ":">>
EligibilityM == <<"E", "l", "i", "g", "i", "b", "i", "l", "i", "t", "y", ":">>
ConditionsM == <<"C", "o", "n", "d", "i", "t", "i", "o", "n", "s", ":">>
InclusionM == <<"I", "n", "c", "l", "u", "s", "i", "o", "n", " ", "C", "r", "i", "t", "e", "r", "i", "a", ":">>
ExclusionM == <<"E", "x", "c", "l", "u", "s", "i", "o", "n", " ", "C", "r", "i", "t", "e", "r", "i", "a", ":">>
LocationsM == <<"L", "o", "c", "a", "t", "i", "o", "n", "s", ":">>
InterventionsM == <<"I", "n", "t", "e", "r", "v", "e", "n", "t", "i", "o", "n", "s", ":">>
OutcomesM == <<"O", "u", "t", "c", "o", "m", "e", "s", ":">>
PrimaryM == <<"P", "R", "I", "M", "A", "R", "Y", ":">>
SecondaryM == <<"S", "E", "C", "O", "N", "D", "A", "R", "Y", ":">>
LblConditions == <<"C", "o", "n", "d", "i", "t", "i", "o", "n", "s">>
LblInclusion == <<"I", "n", "c", "l", "u", "s", "i", "o", "n", " ", "C", "r", "i", "t", "e", "r", "i", "a">>
LblExclusion == <<"E", "x", "c", "l", "u", "s", "i", "o", "n", " ", "C", "r", "i", "t", "e", "r", "i", "a">>
LblLocations == <<"L", "o", "c", "a", "t", "i", "o", "n", "s">>
LblInterventions == <<"I", "n", "t", "e", "r", "v", "e", "n", "t", "i", "o", "n", "s">>
LblPrimary == <<"P", "r", "i", "m", "a", "r", "y", " ", "O", "u", "t", "c", "o", "m", "e", "s">>
LblSecondary == <<"S", "e", "c", "o", "n", "d", "a", "r", "y", " ", "O", "u", "t", "c", "o", "m", "e", "s">>
BulletPrefix == <<" ", " ", "-", " ">>

\* Python's None, a value no string equals
None == <<"None">>

(***************************************************************************)
(* Python values held in the section map: a str or a list of str.          *)
(***************************************************************************)
Str(v) == [t |-> "str", v |-> v]
List(v) == [t |-> "list", v |-> v]

\* `not x` for a str or a list
Falsy(x) == x.v = <<>>

SectionKeys ==
    {"title", "inclusion", "exclusion", "conditions", "locations",
     "interventions", "primary_outcomes", "secondary_outcomes"}

DEFAULT_SECTIONS == [k \in SectionKeys |-> Str(<<>>)]

(***************************************************************************)
(* _extract_between(start, end, text).  The result carries `raised`: the   *)
(* ValueError of str.index when the substring is not found.                *)
(***************************************************************************)
\* Variant of _extract_between that looks for the end marker from the start
\* of the source instead of from behind the start marker.
extract_between_end_anywhere(source, start, end) ==
    IF ~Contains(source, start, 1) THEN [raised |-> FALSE, v |-> <<>>]
    ELSE IF end # None /\ end # <<>> /\ Contains(source, end, 1)
    THEN [raised |-> FALSE,
          v |-> Strip(Slice(source, Index(source, start, 1) + Len(start),
                            Index(source, end, 1) - 1))]
    ELSE [raised |-> FALSE,
          v |-> Strip(Slice(source, Index(source, start, 1) + Len(start), Len(source)))]

Returned(v) == [raised |-> FALSE, v |-> v]
Raised == [raised |-> TRUE, v |-> <<>>]

extract_between(source, start, end) ==
    IF ~Contains(source, start, 1) THEN Returned(<<>>)
    ELSE LET i == Index(source, start, 1)
         IN  IF i = 0 THEN Raised
             ELSE LET start_idx == i + Len(start)
                  IN  IF end # None /\ end # <<>> /\ Contains(source, end, start_idx)
                      THEN LET end_idx == Index(source, end, start_idx)
                           IN  IF end_idx = 0 THEN Raised
                               ELSE Returned(Strip(Slice(source, start_idx, end_idx - 1)))
                      ELSE Returned(Strip(Slice(source, start_idx, Len(source))))

(***************************************************************************)
(* _extract_outcomes: re.findall of                                        *)
(*   -\s*(PRIMARY|SECONDARY):\s*(.+?)(?=\s*-\s*(?:PRIMARY|SECONDARY):|$)   *)
(* with re.DOTALL, computed as the backtracking matcher computes it.       *)
(***************************************************************************)
\* first position >= p holding a non-whitespace character (Len+1 if none)
SkipWs(s, p) ==
    LET non == {q \in p..Len(s) : s[q] \notin Whitespace}
    IN  IF non = {} THEN Len(s) + 1 ELSE Min(non)

HasAt(s, p, sub) ==
    /\ p >= 1
    /\ p + Len(sub) - 1 <= Len(s)
    /\ SubSeq(s, p, p + Len(sub) - 1) = sub

\* -\s*(PRIMARY|SECONDARY): at p: the group matched ("" when no match)
MarkerType(s, p) ==
    IF p < 1 \/ p > Len(s) THEN ""
    ELSE IF s[p] # "-" THEN ""
    ELSE LET q == SkipWs(s, p + 1)
         IN  IF HasAt(s, q, PrimaryM) THEN "PRIMARY"
             ELSE IF HasAt(s, q, SecondaryM) THEN "SECONDARY"
             ELSE ""

\* position just after the marker's colon
MarkerEnd(s, p) ==
    SkipWs(s, p + 1)
        + (IF MarkerType(s, p) = "PRIMARY" THEN Len(PrimaryM) ELSE Len(SecondaryM))

\* (?=\s*-\s*(?:PRIMARY|SECONDARY):|$) at q; $ also matches before a final newline
Lookahead(s, q) ==
    \/ MarkerType(s, SkipWs(s, q)) # ""
    \/ q = Len(s) + 1
    \/ (q = Len(s) /\ s[q] = "\n")

\* the match of the whole pattern starting at p
MatchAt(s, p) ==
    IF MarkerType(s, p) = "" THEN [ok |-> FALSE]
    ELSE LET e0 == MarkerEnd(s, p)
             c == SkipWs(s, e0)
         IN  IF c <= Len(s)
             THEN \* \s* takes all the whitespace, .+? grows until the lookahead holds
                  LET e == Min({x \in c..Len(s) : Lookahead(s, x + 1)})
                  IN  [ok |-> TRUE, type |-> MarkerType(s, p),
                       content |-> SubSeq(s, c, e), end |-> e]
             ELSE IF e0 <= Len(s)
             THEN \* only whitespace follows: \s* gives back its last character
                  [ok |-> TRUE, type |-> MarkerType(s, p),
                   content |-> <<s[Len(s)]>>, end |-> Len(s)]
             ELSE [ok |-> FALSE]

RECURSIVE FindAll(_, _)
FindAll(s, from) ==
    LET starts == {p \in from..Len(s) : s[p] = "-" /\ MatchAt(s, p).ok}
    IN  IF starts = {} THEN <<>>
        ELSE LET m == MatchAt(s, Min(starts))
             IN  <<[type |-> m.type, content |-> m.content]>> \o FindAll(s, m.end + 1)

RECURSIVE OutcomesOf(_, _)
OutcomesOf(matches, type) ==
    IF matches = <<>> THEN <<>>
    ELSE LET content == Strip(matches[1].content)
             rest == OutcomesOf(Tail(matches), type)
         IN  IF content # <<>> /\ matches[1].type = type
             THEN <<content>> \o rest
             ELSE rest

extract_outcomes(secs, outcomes) ==
    LET matches == FindAll(outcomes, 1)
    IN  [secs EXCEPT
            !["primary_outcomes"] = List(OutcomesOf(matches, "PRIMARY")),
            !["secondary_outcomes"] = List(OutcomesOf(matches, "SECONDARY"))]

(***************************************************************************)
(* parse(): the section map after the call, and whether it raised.         *)
(***************************************************************************)
TitleOf(txt) == Strip(Remove(Remove(FirstLine(txt), TitleSp), TitleNoSp))

\* self.sections[key] = <result of _extract_between>
SetSection(st, key, r) ==
    [raised |-> st.raised \/ r.raised,
     sections |-> [st.sections EXCEPT ![key] = Str(r.v)]]

\* lines 27-30
parse_title(secs, txt) ==
    [raised |-> FALSE, sections |-> [secs EXCEPT !["title"] = Str(TitleOf(txt))]]

\* lines 33-36
parse_eligibility(st, eligibility) ==
    IF eligibility.raised THEN [st EXCEPT !.raised = TRUE]
    ELSE IF eligibility.v # <<>>
    THEN SetSection(
             SetSection(st, "inclusion",
                        extract_between(eligibility.v, InclusionM, ExclusionM)),
             "exclusion", extract_between(eligibility.v, ExclusionM, None))
    ELSE st

\* lines 39-41
parse_standard(st, txt) ==
    SetSection(
        SetSection(
            SetSection(st, "conditions", extract_between(txt, ConditionsM, LocationsM)),
            "locations", extract_between(txt, LocationsM, InterventionsM)),
        "interventions", extract_between(txt, InterventionsM, OutcomesM))

\* lines 44-46
parse_outcomes(st, outcomes) ==
    IF outcomes.raised THEN [st EXCEPT !.raised = TRUE]
    ELSE IF outcomes.v # <<>>
    THEN [st EXCEPT !.sections = extract_outcomes(st.sections, outcomes.v)]
    ELSE st

parse(txt, secs) ==
    parse_outcomes(
        parse_standard(
            parse_eligibility(parse_title(secs, txt),
                              extract_between(txt, EligibilityM, ConditionsM)),
            txt),
        extract_between(txt, OutcomesM, None))

(***************************************************************************)
(* Chunk building.                                                         *)
(***************************************************************************)
DefaultMaxLength == 4096   \* __init__'s default max_length
FallbackRemaining == 100   \* `if remaining <= 100`
FallbackChars == 100       \* `content[:100]`

Chunk(t) == [text |-> t]

\* f"Title: {title}\n{label}: "
SplitHeader(title, label) == TitleSp \o title \o <<"\n">> \o label \o <<":", " ">>

\* f"Title: {title}\n{section_label}:\n"
OutcomeHeader(title, label) == TitleSp \o title \o <<"\n">> \o label \o <<":", "\n">>

\* f"  - {outcome}\n"
OutcomeText(outcome) == BulletPrefix \o outcome \o <<"\n">>

\* Variant of the word loop that starts the next chunk empty, losing the word
\* that did not fit.
RECURSIVE SplitLoopDropsWord(_, _, _, _, _, _)
SplitLoopDropsWord(out, header, words, current_words, current_length, remaining) ==
    IF words = <<>>
    THEN IF current_words # <<>>
         THEN Append(out, Chunk(header \o Join(current_words, <<" ">>)))
         ELSE out
    ELSE IF current_length + Len(words[1]) + 1 > remaining /\ current_words # <<>>
         THEN SplitLoopDropsWord(Append(out, Chunk(header \o Join(current_words, <<" ">>))),
                                 header, Tail(words), <<>>, 0, remaining)
         ELSE SplitLoopDropsWord(out, header, Tail(words), Append(current_words, words[1]),
                                 current_length + Len(words[1]) + 1, remaining)

\* the `for word in words` loop of _split_long and the flush after it
RECURSIVE SplitLoop(_, _, _, _, _, _)
SplitLoop(out, header, words, current_words, current_length, remaining) ==
    IF words = <<>>
    THEN IF current_words # <<>>
         THEN Append(out, Chunk(header \o Join(current_words, <<" ">>)))
         ELSE out
    ELSE LET word == words[1]
             word_len == Len(word) + 1
         IN  IF current_length + word_len > remaining /\ current_words # <<>>
             THEN SplitLoop(Append(out, Chunk(header \o Join(current_words, <<" ">>))),
                            header, Tail(words), <<word>>, word_len, remaining)
             ELSE SplitLoop(out, header, Tail(words), Append(current_words, word),
                            current_length + word_len, remaining)

\* content[:n]
Prefix(s, n) == IF Len(s) <= n THEN s ELSE SubSeq(s, 1, n)

\* Variant of _split_long without the `return` after the low-budget chunk.
split_long_falls_through(out, title, label, content, maxlen) ==
    IF maxlen - Len(SplitHeader(title, label)) <= FallbackRemaining
    THEN SplitLoop(Append(out, Chunk(SplitHeader(title, label)
                                         \o Prefix(content, FallbackChars))),
                   SplitHeader(title, label), SplitWords(content), <<>>, 0,
                   maxlen - Len(SplitHeader(title, label)))
    ELSE SplitLoop(out, SplitHeader(title, label), SplitWords(content), <<>>, 0,
                   maxlen - Len(SplitHeader(title, label)))

split_long(out, title, label, content, maxlen) ==
    IF maxlen - Len(SplitHeader(title, label)) <= FallbackRemaining
    THEN Append(out, Chunk(SplitHeader(title, label) \o Prefix(content, FallbackChars)))
    ELSE SplitLoop(out, SplitHeader(title, label), SplitWords(content), <<>>, 0,
                   maxlen - Len(SplitHeader(title, label)))

\* f"Title: {title}\n{section_label}: {data}"
BaseText(title, label, data) ==
    TitleSp \o title \o <<"\n">> \o label \o <<":", " ">> \o data

\* Variant of _add_chunk without the `if not data: return` guard.
add_chunk_keeps_empty(out, secs, section_key, section_label, maxlen) ==
    IF Len(BaseText(secs["title"].v, section_label, secs[section_key].v)) <= maxlen
    THEN Append(out, Chunk(BaseText(secs["title"].v, section_label, secs[section_key].v)))
    ELSE split_long(out, secs["title"].v, section_label, secs[section_key].v, maxlen)

add_chunk(out, secs, section_key, section_label, maxlen) ==
    IF Falsy(secs[section_key]) THEN out
    ELSE IF Len(BaseText(secs["title"].v, section_label, secs[section_key].v)) <= maxlen
    THEN Append(out, Chunk(BaseText(secs["title"].v, section_label, secs[section_key].v)))
    ELSE split_long(out, secs["title"].v, section_label, secs[section_key].v, maxlen)

\* Variant of the outcome loop that flushes only once the running length has
\* already passed max_length.
RECURSIVE OutcomeLoopFlushesLate(_, _, _, _, _, _)
OutcomeLoopFlushesLate(out, header, outcomes, current_chunk_outcomes, current_length, maxlen) ==
    IF outcomes = <<>>
    THEN IF current_chunk_outcomes # <<>>
         THEN Append(out, Chunk(header \o Concat(current_chunk_outcomes)))
         ELSE out
    ELSE IF current_length > maxlen /\ current_chunk_outcomes # <<>>
         THEN OutcomeLoopFlushesLate(
                  Append(out, Chunk(header \o Concat(current_chunk_outcomes))),
                  header, Tail(outcomes), <<OutcomeText(outcomes[1])>>,
                  Len(header) + Len(OutcomeText(outcomes[1])), maxlen)
         ELSE OutcomeLoopFlushesLate(out, header, Tail(outcomes),
                  Append(current_chunk_outcomes, OutcomeText(outcomes[1])),
                  current_length + Len(OutcomeText(outcomes[1])), maxlen)

\* Variant of the outcome loop that starts the next chunk empty, losing the
\* entry that did not fit.
RECURSIVE OutcomeLoopDropsEntry(_, _, _, _, _, _)
OutcomeLoopDropsEntry(out, header, outcomes, current_chunk_outcomes, current_length, maxlen) ==
    IF outcomes = <<>>
    THEN IF current_chunk_outcomes # <<>>
         THEN Append(out, Chunk(header \o Concat(current_chunk_outcomes)))
         ELSE out
    ELSE IF current_length + Len(OutcomeText(outcomes[1])) > maxlen
                /\ current_chunk_outcomes # <<>>
         THEN OutcomeLoopDropsEntry(
                  Append(out, Chunk(header \o Concat(current_chunk_outcomes))),
                  header, Tail(outcomes), <<>>, Len(header), maxlen)
         ELSE OutcomeLoopDropsEntry(out, header, Tail(outcomes),
                  Append(current_chunk_outcomes, OutcomeText(outcomes[1])),
                  current_length + Len(OutcomeText(outcomes[1])), maxlen)

\* the `for outcome in outcomes` loop of _add_outcome_chunks and the flush after it
RECURSIVE OutcomeLoop(_, _, _, _, _, _)
OutcomeLoop(out, header, outcomes, current_chunk_outcomes, current_length, maxlen) ==
    IF outcomes = <<>>
    THEN IF current_chunk_outcomes # <<>>
         THEN Append(out, Chunk(header \o Concat(current_chunk_outcomes)))
         ELSE out
    ELSE LET outcome_text == OutcomeText(outcomes[1])
             outcome_len == Len(outcome_text)
         IN  IF current_length + outcome_len > maxlen /\ current_chunk_outcomes # <<>>
             THEN OutcomeLoop(Append(out, Chunk(header \o Concat(current_chunk_outcomes))),
                              header, Tail(outcomes), <<outcome_text>>,
                              Len(header) + outcome_len, maxlen)
             ELSE OutcomeLoop(out, header, Tail(outcomes),
                              Append(current_chunk_outcomes, outcome_text),
                              current_length + outcome_len, maxlen)

add_outcome_chunks(out, secs, section_key, section_label, maxlen) ==
    IF Falsy(secs[section_key]) \/ secs[section_key].t # "list" THEN out
    ELSE OutcomeLoop(out, OutcomeHeader(secs["title"].v, section_label),
                     secs[section_key].v, <<>>,
                     Len(OutcomeHeader(secs["title"].v, section_label)), maxlen)

\* Variant of the overview step that emits the title alone when the overview
\* does not fit, leaving conditions out.
overview_chunks_title_only(secs, maxlen) ==
    IF Len(BaseText(secs["title"].v, LblConditions, secs["conditions"].v)) <= maxlen
    THEN <<Chunk(BaseText(secs["title"].v, LblConditions, secs["conditions"].v))>>
    ELSE <<Chunk(TitleSp \o secs["title"].v)>>

\* the overview part of create_chunks (lines 93-108)
overview_chunks(secs, maxlen) ==
    IF Len(BaseText(secs["title"].v, LblConditions, secs["conditions"].v)) <= maxlen
    THEN <<Chunk(BaseText(secs["title"].v, LblConditions, secs["conditions"].v))>>
    ELSE IF ~Falsy(secs["conditions"])
    THEN split_long(<<Chunk(TitleSp \o secs["title"].v)>>, secs["title"].v,
                    LblConditions, secs["conditions"].v, maxlen)
    ELSE <<Chunk(TitleSp \o secs["title"].v)>>

\* Variant of create_chunks that emits exclusion before inclusion.
build_chunks_exclusion_first(secs, maxlen) ==
    add_outcome_chunks(
        add_outcome_chunks(
            add_chunk(
                add_chunk(
                    add_chunk(
                        add_chunk(overview_chunks(secs, maxlen),
                                  secs, "exclusion", LblExclusion, maxlen),
                        secs, "inclusion", LblInclusion, maxlen),
                    secs, "locations", LblLocations, maxlen),
                secs, "interventions", LblInterventions, maxlen),
            secs, "primary_outcomes", LblPrimary, maxlen),
        secs, "secondary_outcomes", LblSecondary, maxlen)

\* lines 90-120: the chunk list built from a populated section map
build_chunks(secs, maxlen) ==
    add_outcome_chunks(
        add_outcome_chunks(
            add_chunk(
                add_chunk(
                    add_chunk(
                        add_chunk(overview_chunks(secs, maxlen),
                                  secs, "inclusion", LblInclusion, maxlen),
                        secs, "exclusion", LblExclusion, maxlen),
                    secs, "locations", LblLocations, maxlen),
                secs, "interventions", LblInterventions, maxlen),
            secs, "primary_outcomes", LblPrimary, maxlen),
        secs, "secondary_outcomes", LblSecondary, maxlen)

\* Variant of the test that parses on every call.
sections_for_chunks_always_parses(txt, secs) == parse(txt, secs).sections

\* lines 87-88: `if not self.sections: self.parse()`
sections_for_chunks(txt, secs) ==
    IF DOMAIN secs = {} THEN parse(txt, secs).sections ELSE secs

\* create_chunks(): the list it returns
create_chunks(txt, secs, maxlen) ==
    build_chunks(sections_for_chunks(txt, secs), maxlen)

(***************************************************************************)
(* Documents handed to the chunker.                                        *)
(***************************************************************************)
Letters == <<"a", "b", "c", "d", "e", "f">>
WordLen == 40      \* length of one generated token
GiantLen == 120    \* length of a token longer than any splitter budget used
EntryLen == 40     \* length of a medium outcome entry
MidEntryLen == 20  \* an entry that fits SmallMaxLength only without its header
LongEntryLen == 150 \* length of an outcome entry longer than MidMaxLength
LongTitleLen == 50
SmallMaxLength == 40
MidMaxLength == 140

\* k tokens of WordLen characters, token i made of Letters[i], joined by sep
RECURSIVE Words(_, _)
Words(k, sep) ==
    IF k = 0 THEN <<>>
    ELSE IF k = 1 THEN Rep(Letters[1], WordLen)
    ELSE Words(k - 1, sep) \o sep \o Rep(Letters[k], WordLen)

ShortContent == <<"A", " ", "b">>

\* three tokens, the first two of which, joined by a space, are exactly as
\* long as the splitter's budget for the inclusion section under a
\* one-character title at MidMaxLength
ExactFitContent ==
    Rep("a", WordLen) \o <<" ">>
        \o Rep("h", MidMaxLength - Len(SplitHeader(<<"T">>, LblInclusion)) - WordLen - 1)
        \o <<" ">> \o Rep("c", WordLen)

ScalarContents ==
    {<<>>, ShortContent, Rep("g", GiantLen), Words(MaxWords, <<"\n", " ">>),
     ExactFitContent}
        \cup {Words(k, <<" ">>) : k \in 1..MaxWords}

\* one outcome bullet as it stands in a document
Bullet(marker, entry) == <<"-", " ">> \o marker \o <<" ">> \o entry \o <<"\n">>

\* n bullets of EntryLen characters, alternating PRIMARY (odd) / all PRIMARY
RECURSIVE Bullets(_, _)
Bullets(n, mixed) ==
    IF n = 0 THEN <<>>
    ELSE Bullets(n - 1, mixed)
            \o Bullet(IF mixed /\ n % 2 = 0 THEN SecondaryM ELSE PrimaryM,
                      Rep(Letters[n], EntryLen))

OutcomeBlocks ==
    {<<>>,
     Bullet(PrimaryM, Rep("m", MidEntryLen)),
     Bullet(PrimaryM, <<"P", "1">>) \o Bullet(SecondaryM, <<"S", "1">>),
     Bullet(PrimaryM, Rep("L", LongEntryLen)),
     Bullet(PrimaryM, <<"p">>) \o Bullet(PrimaryM, Rep("L", LongEntryLen))
         \o Bullet(PrimaryM, <<"q">>),
     Bullet(PrimaryM, <<"x", "\n", "y">>) \o Bullet(SecondaryM, <<>>)
         \o Bullet(PrimaryM, <<"z">>)}
        \cup {Bullets(n, FALSE) : n \in 1..MaxOutcomes}
        \cup {Bullets(MaxOutcomes, TRUE)}

CanonicalDoc(title, inc, exc, cond, loc, int, outs) ==
    TitleSp \o title \o <<"\n">>
        \o EligibilityM \o <<"\n">>
        \o InclusionM \o <<" ">> \o inc \o <<"\n">>
        \o ExclusionM \o <<" ">> \o exc \o <<"\n">>
        \o ConditionsM \o <<" ">> \o cond \o <<"\n">>
        \o LocationsM \o <<" ">> \o loc \o <<"\n">>
        \o InterventionsM \o <<" ">> \o int \o <<"\n">>
        \o OutcomesM \o <<"\n">> \o outs

ShortTitle == <<"T">>
LongTitle == Rep("t", LongTitleLen)

\* one section varies over ScalarContents, the others are all empty or all short
FocusDocs ==
    {CanonicalDoc(ShortTitle,
                  IF f = 1 THEN c ELSE o, IF f = 2 THEN c ELSE o,
                  IF f = 3 THEN c ELSE o, IF f = 4 THEN c ELSE o,
                  IF f = 5 THEN c ELSE o, <<>>) :
        f \in 1..5, c \in ScalarContents, o \in {<<>>, ShortContent}}

\* the outcome block varies, the scalar sections are all empty or all short
OutcomeDocs ==
    {CanonicalDoc(ShortTitle, o, o, o, o, o, b) :
        o \in {<<>>, ShortContent}, b \in OutcomeBlocks}

\* every section long, under a short and a long title
FullDocs ==
    {CanonicalDoc(t, c, c, c, c, c, Bullets(MaxOutcomes, TRUE)) :
        t \in {ShortTitle, LongTitle},
        c \in {ShortContent, Words(MaxWords, <<" ">>)}}

\* documents that leave markers out, repeat them or put them out of order
\* the end-to-end example: contents A, B, C, D, E, P1, S1 under title Test
ExampleDoc ==
    TitleSp \o <<"T", "e", "s", "t", "\n">>
        \o EligibilityM \o <<"\n">>
        \o InclusionM \o <<" ", "A", "\n">>
        \o ExclusionM \o <<" ", "B", "\n">>
        \o ConditionsM \o <<" ", "C", "\n">>
        \o LocationsM \o <<" ", "D", "\n">>
        \o InterventionsM \o <<" ", "E", "\n">>
        \o OutcomesM \o <<"\n">>
        \o <<"-", " ">> \o PrimaryM \o <<" ", "P", "1", "\n">>
        \o <<"-", " ">> \o SecondaryM \o <<" ", "S", "1">>

IrregularDocs ==
    {ExampleDoc,
     TitleSp \o <<"T", "e", "s", "t">>,
     <<"N", "o", " ", "p", "r", "e", "f", "i", "x">>,
     TitleNoSp \o <<"X", " ">> \o TitleSp \o <<"Y", "\n">> \o ConditionsM \o <<" ", "C">>,
     TitleSp \o <<"T", "\n">> \o LocationsM \o <<" ", "D", "\n">>
         \o ConditionsM \o <<" ", "C", "\n">> \o InterventionsM \o <<" ", "E">>,
     TitleSp \o <<"T", "\n">> \o ConditionsM \o <<" ", "C", "\n">>
         \o LocationsM \o <<" ", "D", "\n">> \o LocationsM \o <<" ", "F", "\n">>
         \o ConditionsM \o <<" ", "G">>,
     TitleSp \o <<"T", "\n">> \o InclusionM \o <<" ", "A", "\n">>
         \o ExclusionM \o <<" ", "B">>,
     TitleSp \o <<"T", "\n">> \o EligibilityM \o <<"\n">> \o ExclusionM \o <<" ", "B", "\n">>
         \o InclusionM \o <<" ", "A", "\n">> \o ConditionsM \o <<" ", "C">>,
     TitleSp \o <<"T", "\n">> \o OutcomesM \o <<" ", "n", "o", "n", "e">>,
     TitleSp \o <<"T", "\n">> \o OutcomesM \o <<"\n">> \o <<"-">> \o PrimaryM
         \o <<"P", "1", " ", "-", " ", "x", "\n", "-", " ", " ">> \o SecondaryM \o <<"S", "1">>,
     <<"\n">> \o ConditionsM \o <<" ", "C">>}

Documents == FocusDocs \cup OutcomeDocs \cup FullDocs \cup IrregularDocs

MaxLengths == {SmallMaxLength, MidMaxLength, DefaultMaxLength}

(***************************************************************************)
(* EligibilityMatcher.  Its code is not part of the source tree (the tool  *)
(* layer only calls it, server.py lines 116-121 and 273-278); it is        *)
(* modelled from section 4.3 of the specification: a loop over the         *)
(* required conditions, each scanned against the observed conditions, the  *)
(* embedding of a condition memoized under its lower-cased, trimmed text.  *)
(***************************************************************************)
DefaultThresholdPct == 75   \* the default threshold 0.75, in hundredths
LowThresholdPct == 50       \* a threshold a caller passes instead

\* str.lower() on the letters the conditions use
LowerChar(c) ==
    CASE c = "F" -> "f" [] c = "C" -> "c" [] c = "G" -> "g" [] OTHER -> c

Lower(s) == [i \in 1..Len(s) |-> LowerChar(s[i])]

\* the cache key: condition.lower().strip()
CacheKey(condition) == Strip(Lower(condition))

KeyFlu == <<"f", "l", "u">>
KeyCold == <<"c", "o", "l", "d">>
KeyGout == <<"g", "o", "u", "t">>

\* The embedding collaborator: one vector per normalized condition, all of
\* the same length (squared norm 16).  cos(flu, cold) = 12/16 = 0.75,
\* cos(flu, gout) = 4/16, cos(cold, gout) = 11/16.
Embed(key) ==
    CASE key = KeyFlu -> <<4, 0, 0, 0, 0>>
      [] key = KeyCold -> <<3, 2, 1, 1, 1>>
      [] key = KeyGout -> <<1, 1, 1, 2, 3>>
      [] OTHER -> <<0, 0, 0, 0, 4>>

RECURSIVE DotFrom(_, _, _)
DotFrom(u, v, i) == IF i > Len(u) THEN 0 ELSE u[i] * v[i] + DotFrom(u, v, i + 1)

Dot(u, v) == DotFrom(u, v, 1)

\* cosine(u, v) >= pct / 100, for vectors of one common length
SimilarityAtLeast(u, v, pct) == Dot(u, v) * 100 >= pct * Dot(u, u)

\* The matcher's memory: the embedding cache and, in order, the strings the
\* embedding collaborator was called with.
Memo(cache, embedded) == [cache |-> cache, embedded |-> embedded]

\* Variant of the lookup that calls the collaborator again on a hit.
CachedRecomputes(memo, key) ==
    Memo([k \in DOMAIN memo.cache \cup {key} |->
             IF k = key THEN Embed(k) ELSE memo.cache[k]],
         Append(memo.embedded, key))

\* the memory after looking up key: a miss calls the collaborator and stores
\* the embedding
Cached(memo, key) ==
    IF key \in DOMAIN memo.cache THEN memo
    ELSE Memo([k \in DOMAIN memo.cache \cup {key} |->
                  IF k = key THEN Embed(k) ELSE memo.cache[k]],
              Append(memo.embedded, key))

\* the cache keys of a list of conditions
Keys(conditions) == [i \in 1..Len(conditions) |-> CacheKey(conditions[i])]

\* any(similarity(required, o) >= threshold for o in observed) for a
\* required condition already looked up, with the memory it leaves behind
RECURSIVE ObservedScan(_, _, _, _)
ObservedScan(memo, required, observed, pct) ==
    IF observed = <<>> THEN [found |-> FALSE, memo |-> memo]
    ELSE LET looked_up == Cached(memo, observed[1])
         IN  IF SimilarityAtLeast(looked_up.cache[required],
                                  looked_up.cache[observed[1]], pct)
             THEN [found |-> TRUE, memo |-> looked_up]
             ELSE ObservedScan(looked_up, required, Tail(observed), pct)

\* Variant of the loop over the required conditions that is satisfied by any
\* one of them.
RECURSIVE RequiredLoopAny(_, _, _, _)
RequiredLoopAny(memo, required, observed, pct) ==
    IF required = <<>> THEN [result |-> TRUE, memo |-> memo]
    ELSE LET scan == ObservedScan(Cached(memo, required[1]), required[1], observed, pct)
         IN  IF scan.found THEN [result |-> TRUE, memo |-> scan.memo]
             ELSE IF Len(required) = 1 THEN [result |-> FALSE, memo |-> scan.memo]
             ELSE RequiredLoopAny(scan.memo, Tail(required), observed, pct)

\* all(any(...) for r in required) over the cache keys, stopping at the first
\* required condition that no observed condition meets
RECURSIVE RequiredLoop(_, _, _, _)
RequiredLoop(memo, required, observed, pct) ==
    IF required = <<>> THEN [result |-> TRUE, memo |-> memo]
    ELSE LET scan == ObservedScan(Cached(memo, required[1]), required[1], observed, pct)
         IN  IF ~scan.found THEN [result |-> FALSE, memo |-> scan.memo]
             ELSE RequiredLoop(scan.memo, Tail(required), observed, pct)

\* match(required, observed, threshold): what it returns and the memory it
\* leaves behind
match(memo, required, observed, pct) ==
    RequiredLoop(memo, Keys(required), Keys(observed), pct)

\* Variant of the patient loop that tests the limit one candidate late.
RECURSIVE FindLoopOneMore(_, _, _, _, _, _)
FindLoopOneMore(memo, pool, required, pct, limit, out) ==
    IF pool = <<>> \/ Len(out) > limit THEN [patients |-> out, memo |-> memo]
    ELSE LET r == match(memo, required, pool[1].conditions, pct)
         IN  FindLoopOneMore(r.memo, Tail(pool), required, pct, limit,
                             IF r.result THEN Append(out, pool[1].id) ELSE out)

\* the loop over the candidate pool: each candidate in iteration order is
\* tested with match and kept when eligible, until limit are kept
RECURSIVE FindLoop(_, _, _, _, _, _)
FindLoop(memo, pool, required, pct, limit, out) ==
    IF pool = <<>> \/ Len(out) >= limit THEN [patients |-> out, memo |-> memo]
    ELSE LET r == match(memo, required, pool[1].conditions, pct)
         IN  FindLoop(r.memo, Tail(pool), required, pct, limit,
                      IF r.result THEN Append(out, pool[1].id) ELSE out)

\* find_eligible_patients(..., required_conditions, limit) over the
\* age-filtered pool: the ids it returns and the memory it leaves behind
find_eligible(memo, pool, required, pct, limit) ==
    FindLoop(memo, pool, required, pct, limit, <<>>)

\* condition texts handed to the matcher
Conditions ==
    {<<"F", "l", "u", " ">>, KeyFlu, <<"C", "o", "l", "d">>, KeyGout}

\* the lists of up to n distinct conditions
Lists(n) ==
    UNION {{c \in [1..k -> Conditions] : \A i, j \in 1..k : c[i] = c[j] => i = j}
               : k \in 0..n}

EmptyCache == [k \in {} |-> <<>>]

\* candidate patients: an id and the patient's observed conditions
Patients ==
    {[id |-> "p1", conditions |-> <<KeyCold>>],
     [id |-> "p2", conditions |-> <<<<"F", "l", "u", " ">>>>],
     [id |-> "p3", conditions |-> <<KeyGout, <<"C", "o", "l", "d">>>>],
     [id |-> "p4", conditions |-> <<>>]}

\* the pools of up to n distinct candidates, in every iteration order
Pools(n) ==
    UNION {{c \in [1..k -> Patients] : \A i, j \in 1..k : c[i] = c[j] => i = j}
               : k \in 0..n}

(***************************************************************************)
(* The chunker object: construction, parse(), create_chunks().             *)
(***************************************************************************)
MatcherIdle ==
    /\ mReq = <<>>
    /\ mThreshold = DefaultThresholdPct
    /\ mObs = <<>>
    /\ mResult = "none"
    /\ mCache = EmptyCache
    /\ mEmbedded = <<>>
    /\ mCalls = 0

PoolIdle ==
    /\ mPool = <<>>
    /\ mLimit = 0
    /\ mFound = None

ChunkerInit ==
    /\ argText \in Documents \cup {<<>>, None}
    /\ argMaxLen \in MaxLengths
    /\ status = "new"
    /\ raised = "none"
    /\ text = None
    /\ max_length = 0
    /\ sections = DEFAULT_SECTIONS
    /\ parsed = FALSE
    /\ chunks = <<>>
    /\ prevChunks = <<>>
    /\ calls = 0
    /\ fresh = FALSE
    /\ sameInput = FALSE

ConcurrentIdle ==
    /\ cRequests = <<>>
    /\ cWritten = {}

\* the empty dictionary {}
EmptyDict == <<>>

\* no tool request made
ToolIdle ==
    /\ tRequest = EmptyDict
    /\ tResponse = EmptyDict
    /\ tSearches = <<>>
    /\ tDbCalls = <<>>
    /\ tEscaped = "none"

\* create_nodes not called
NodesIdle ==
    /\ nData = <<>>
    /\ nSampleSize = 0
    /\ nSampled = <<>>
    /\ nOutcome = EmptyDict

\* no feasibility assessment made
FeasibilityIdle ==
    /\ fAvailable = 0
    /\ fTarget = 0
    /\ fResult = EmptyDict

Init ==
    /\ ChunkerInit
    /\ MatcherIdle
    /\ PoolIdle
    /\ ConcurrentIdle
    /\ ToolIdle
    /\ FeasibilityIdle
    /\ NodesIdle

\* Variant of the `if not text` test that rejects only an absent text.
EmptyTextOnlyNone(t) == t = None

\* `not text`
EmptyText(t) == t = None \/ t = <<>>

\* ClinicalTrialChunker.__init__(text, max_length)
Construct ==
    /\ status = "new"
    /\ IF EmptyText(argText)
       THEN /\ status' = "failed"
            /\ raised' = "ValueError"
            /\ UNCHANGED <<text, max_length, sections>>
       ELSE /\ status' = "constructed"
            /\ raised' = "none"
            /\ text' = argText
            /\ max_length' = argMaxLen
            /\ sections' = DEFAULT_SECTIONS
    /\ UNCHANGED <<argText, argMaxLen, parsed, chunks, prevChunks, calls, fresh, sameInput>>
    /\ UNCHANGED <<matcherVars, poolVars, concVars, toolVars, feasVars, nodeVars>>

\* the effect of parse() returning r
ParseResult(r) ==
    /\ raised' = IF r.raised THEN "ValueError" ELSE "none"
    /\ sections' = IF r.raised THEN sections ELSE r.sections
    /\ parsed' = (parsed \/ ~r.raised)
    /\ fresh' = (fresh /\ sections' = sections)

\* ClinicalTrialChunker.parse()
Parse ==
    /\ status = "constructed"
    /\ ParseResult(parse(text, sections))
    /\ UNCHANGED <<argText, argMaxLen, status, text, max_length, chunks, prevChunks, calls,
                   sameInput>>
    /\ UNCHANGED <<matcherVars, poolVars, concVars, toolVars, feasVars, nodeVars>>

\* ClinicalTrialChunker.create_chunks()
CreateChunks ==
    /\ status = "constructed"
    /\ calls < MaxCalls
    /\ sections' = sections_for_chunks(text, sections)
    /\ chunks' = create_chunks(text, sections, max_length)
    /\ prevChunks' = chunks
    /\ calls' = calls + 1
    /\ fresh' = TRUE
    /\ sameInput' = (fresh /\ sections' = sections)
    /\ raised' = "none"
    /\ UNCHANGED <<argText, argMaxLen, status, text, max_length, parsed>>
    /\ UNCHANGED <<matcherVars, poolVars, concVars, toolVars, feasVars, nodeVars>>

Next == Construct \/ Parse \/ CreateChunks

Spec == Init /\ [][Next]_vars

(***************************************************************************)
(* The matcher: one set of required conditions, match() per patient.       *)
(***************************************************************************)
\* the chunker left untouched while the matcher runs
ChunkerIdle ==
    /\ argText = None
    /\ argMaxLen = DefaultMaxLength
    /\ status = "new"
    /\ raised = "none"
    /\ text = None
    /\ max_length = 0
    /\ sections = DEFAULT_SECTIONS
    /\ parsed = FALSE
    /\ chunks = <<>>
    /\ prevChunks = <<>>
    /\ calls = 0
    /\ fresh = FALSE
    /\ sameInput = FALSE

\* a trial's required conditions and the threshold the caller passes
MatcherInputs ==
    /\ mReq \in Lists(MaxRequired)
    /\ mThreshold \in {DefaultThresholdPct, LowThresholdPct}
    /\ mObs = <<>>
    /\ mResult = "none"
    /\ mCache = EmptyCache
    /\ mEmbedded = <<>>
    /\ mCalls = 0

MatcherInit ==
    /\ ChunkerIdle
    /\ MatcherInputs
    /\ PoolIdle
    /\ ConcurrentIdle
    /\ ToolIdle
    /\ FeasibilityIdle
    /\ NodesIdle

\* the effect of match() returning r
MatchResult(r) ==
    /\ mResult' = IF r.result THEN "True" ELSE "False"
    /\ mCache' = r.memo.cache
    /\ mEmbedded' = r.memo.embedded

\* EligibilityMatcher.match(required, observed, threshold) for one patient
Match ==
    /\ mCalls < MaxMatchCalls
    /\ \E observed \in Lists(MaxObserved) :
           /\ mObs' = observed
           /\ MatchResult(match(Memo(mCache, mEmbedded), mReq, observed, mThreshold))
    /\ mCalls' = mCalls + 1
    /\ UNCHANGED <<mReq, mThreshold>>
    /\ UNCHANGED <<chunkerVars, poolVars, concVars, toolVars, feasVars, nodeVars>>

MatcherNext == Match

MatcherSpec == MatcherInit /\ [][MatcherNext]_vars

(***************************************************************************)
(* The matcher: one patient search over a pool of candidates.              *)
(***************************************************************************)
PoolInit ==
    /\ ChunkerIdle
    /\ MatcherInputs
    /\ PoolIdle
    /\ ConcurrentIdle
    /\ ToolIdle
    /\ FeasibilityIdle
    /\ NodesIdle

\* the effect of find_eligible_patients() returning r
FindResult(r) ==
    /\ mFound' = r.patients
    /\ mCache' = r.memo.cache
    /\ mEmbedded' = r.memo.embedded

\* find_eligible_patients(age_min, age_max, required_conditions, limit) once
\* the persistence collaborator has produced the age-filtered pool
FindEligiblePatients ==
    /\ mFound = None
    /\ \E pool \in Pools(MaxPool), limit \in 0..MaxLimit :
           /\ mPool' = pool
           /\ mLimit' = limit
           /\ FindResult(find_eligible(Memo(mCache, mEmbedded), pool, mReq,
                                       mThreshold, limit))
    /\ UNCHANGED <<mReq, mThreshold, mObs, mResult, mCalls>>
    /\ UNCHANGED <<chunkerVars, concVars, toolVars, feasVars, nodeVars>>

PoolNext == FindEligiblePatients

PoolSpec == PoolInit /\ [][PoolNext]_vars

(***************************************************************************)
(* The matcher: several match requests sharing the embedding cache.  Each  *)
(* request runs the loops of match one cache access at a time: a read of   *)
(* the shared map and, after a miss and the collaborator call, a write to  *)
(* it; the map is guarded, so each read and each write is one step.        *)
(***************************************************************************)
\* the inputs of the requests that run together
RequestInputs ==
    {[required |-> <<<<"F", "l", "u", " ">>>>,
      observed |-> <<<<"C", "o", "l", "d">>, KeyFlu>>, pct |-> DefaultThresholdPct],
     [required |-> <<KeyCold, KeyGout>>,
      observed |-> <<KeyFlu>>, pct |-> DefaultThresholdPct],
     [required |-> <<KeyGout>>,
      observed |-> <<KeyFlu, KeyCold>>, pct |-> LowThresholdPct],
     [required |-> <<>>, observed |-> <<KeyGout>>, pct |-> DefaultThresholdPct]}

\* a request about to start
NewRequest(in) ==
    [required |-> Keys(in.required), observed |-> Keys(in.observed), pct |-> in.pct,
     input |-> in, pc |-> "start", phase |-> "required", i |-> 1, j |-> 1,
     key |-> <<>>, vec |-> <<>>, rvec |-> <<>>, snapshot |-> EmptyCache,
     result |-> "none"]

Finished(p, result) ==
    [p EXCEPT !.pc = "done", !.result = result, !.key = <<>>, !.vec = <<>>,
              !.rvec = <<>>, !.snapshot = EmptyCache]

\* the request goes on to look up key
LookUp(p, phase, key) == [p EXCEPT !.pc = "read", !.phase = phase, !.key = key]

\* the request after the observed condition j was compared with required i
Compared(p, similar) ==
    IF similar
    THEN IF p.i = Len(p.required) THEN Finished(p, "True")
         ELSE LookUp([p EXCEPT !.i = p.i + 1, !.j = 1], "required",
                     p.required[p.i + 1])
    ELSE IF p.j = Len(p.observed) THEN Finished(p, "False")
         ELSE LookUp([p EXCEPT !.j = p.j + 1], "observed", p.observed[p.j + 1])

\* the request once the embedding vec of its current key is in hand
Advance(p, vec) ==
    IF p.phase = "required"
    THEN IF p.observed = <<>> THEN Finished(p, "False")
         ELSE LookUp([p EXCEPT !.rvec = vec, !.j = 1], "observed", p.observed[1])
    ELSE Compared(p, SimilarityAtLeast(p.rvec, vec, p.pct))

\* Variant of the guarded write that adds the entry to the map the request
\* read earlier and installs that map.
StoreIntoSnapshot(cache, snapshot, key, vec) ==
    [k \in DOMAIN snapshot \cup {key} |-> IF k = key THEN vec ELSE snapshot[k]]

\* the guarded write: the entry is added to the map as it is now (snapshot
\* is the map the request read before calling the collaborator)
Store(cache, snapshot, key, vec) ==
    [k \in DOMAIN cache \cup {key} |-> IF k = key THEN vec ELSE cache[k]]

ConcurrentInit ==
    /\ ChunkerIdle
    /\ MatcherIdle
    /\ PoolIdle
    /\ cRequests \in [1..MaxRequests -> {NewRequest(in) : in \in RequestInputs}]
    /\ cWritten = {}
    /\ ToolIdle
    /\ FeasibilityIdle
    /\ NodesIdle

\* request id enters match(): no required condition means True at once
StartRequest(id) ==
    /\ cRequests[id].pc = "start"
    /\ cRequests' = [cRequests EXCEPT ![id] =
           IF cRequests[id].required = <<>> THEN Finished(cRequests[id], "True")
           ELSE LookUp(cRequests[id], "required", cRequests[id].required[1])]
    /\ UNCHANGED <<cWritten, chunkerVars, matcherVars, poolVars, toolVars, feasVars, nodeVars>>

\* request id reads the cache for its current key: a hit goes on with the
\* cached vector, a miss calls the embedding collaborator
ReadCache(id) ==
    /\ cRequests[id].pc = "read"
    /\ IF cRequests[id].key \in DOMAIN mCache
       THEN /\ cRequests' = [cRequests EXCEPT ![id] =
                   Advance(cRequests[id], mCache[cRequests[id].key])]
            /\ UNCHANGED mEmbedded
       ELSE /\ cRequests' = [cRequests EXCEPT ![id] =
                   [cRequests[id] EXCEPT !.pc = "write", !.snapshot = mCache,
                                         !.vec = Embed(cRequests[id].key)]]
            /\ mEmbedded' = Append(mEmbedded, cRequests[id].key)
    /\ UNCHANGED <<mReq, mThreshold, mObs, mResult, mCache, mCalls>>
    /\ UNCHANGED <<cWritten, chunkerVars, poolVars, toolVars, feasVars, nodeVars>>

\* request id stores the embedding it computed and goes on
WriteCache(id) ==
    /\ cRequests[id].pc = "write"
    /\ mCache' = Store(mCache, cRequests[id].snapshot, cRequests[id].key,
                       cRequests[id].vec)
    /\ cWritten' = cWritten \cup {cRequests[id].key}
    /\ cRequests' = [cRequests EXCEPT ![id] =
           Advance([cRequests[id] EXCEPT !.snapshot = EmptyCache], cRequests[id].vec)]
    /\ UNCHANGED <<mReq, mThreshold, mObs, mResult, mEmbedded, mCalls>>
    /\ UNCHANGED <<chunkerVars, poolVars, toolVars, feasVars, nodeVars>>

ConcurrentNext ==
    \E id \in DOMAIN cRequests : StartRequest(id) \/ ReadCache(id) \/ WriteCache(id)

ConcurrentSpec == ConcurrentInit /\ [][ConcurrentNext]_vars

(***************************************************************************)
(* The tool layer (src/server.py): values of trial metadata.  A value is   *)
(* a Python None, str, int, float or list; a float is held in tenths.      *)
(***************************************************************************)
PyValue(t, n, s, l) == [t |-> t, n |-> n, s |-> s, l |-> l]
PyMissing == PyValue("missing", 0, <<>>, <<>>)   \* the key is absent from the dict
PyNone == PyValue("none", 0, <<>>, <<>>)
PyInt(n) == PyValue("int", n, <<>>, <<>>)
PyFloat(tenths) == PyValue("float", tenths, <<>>, <<>>)
PyStr(s) == PyValue("str", 0, s, <<>>)
PyList(l) == PyValue("list", 0, <<>>, l)

\* dict.get(key, default)
Get(value, default) == IF value.t = "missing" THEN default ELSE value

Digits == <<"0", "1", "2", "3", "4", "5", "6", "7", "8", "9">>

IsDigits(s) == \A i \in 1..Len(s) : \E d \in 1..10 : s[i] = Digits[d]

DigitOf(c) == (CHOOSE d \in 1..10 : Digits[d] = c) - 1

RECURSIVE DigitsValue(_)
DigitsValue(s) ==
    IF s = <<>> THEN 0
    ELSE 10 * DigitsValue(SubSeq(s, 1, Len(s) - 1)) + DigitOf(s[Len(s)])

\* spellings float() reads as an infinity / as not-a-number
InfWords == {<<"i", "n", "f">>, <<"I", "n", "f">>,
             <<"i", "n", "f", "i", "n", "i", "t", "y">>,
             <<"I", "n", "f", "i", "n", "i", "t", "y">>}
NanWords == {<<"n", "a", "n">>, <<"N", "a", "N">>}

\* float() of an unsigned literal: digits with an optional point (literals
\* with an exponent or an underscore are not among the values drawn)
UnsignedFloat(body) ==
    IF body \in InfWords THEN [kind |-> "inf", whole |-> 0]
    ELSE IF body \in NanWords THEN [kind |-> "nan", whole |-> 0]
    ELSE IF body # <<>> /\ IsDigits(body)
    THEN [kind |-> "num", whole |-> DigitsValue(body)]
    ELSE IF Contains(body, <<".">>, 1) /\ Len(body) > 1
            /\ IsDigits(Slice(body, 1, Index(body, <<".">>, 1) - 1))
            /\ IsDigits(Slice(body, Index(body, <<".">>, 1) + 1, Len(body)))
    THEN [kind |-> "num",
          whole |-> DigitsValue(Slice(body, 1, Index(body, <<".">>, 1) - 1))]
    ELSE [kind |-> "ValueError", whole |-> 0]

\* float(s) for a str: surrounding whitespace and one sign are allowed.  Of
\* a number only the part before the point is kept (whole), with its sign.
FloatOfStripped(b) ==
    IF b # <<>> /\ b[1] = "-"
    THEN [UnsignedFloat(Tail(b)) EXCEPT !.whole = 0 - @]
    ELSE IF b # <<>> /\ b[1] = "+" THEN UnsignedFloat(Tail(b))
    ELSE UnsignedFloat(b)

float_of_str(s) == FloatOfStripped(Strip(s))

\* int() of a float given in tenths: truncation toward zero
TruncTenths(tenths) ==
    IF tenths >= 0 THEN tenths \div 10 ELSE 0 - ((0 - tenths) \div 10)

Skipped == [kind |-> "skip", n |-> 0]
Parsed(n) == [kind |-> "value", n |-> n]
Overflow == [kind |-> "OverflowError", n |-> 0]

\* int(float(s)) inside `try ... except (ValueError, TypeError): pass`
IntOfFloatStr(f) ==
    CASE f.kind = "num" -> Parsed(f.whole)
      [] f.kind = "inf" -> Overflow
      [] OTHER -> Skipped

\* lines 231-236 (and 239-244, 247-252) for one value: skipped, appended as
\* an int, or an exception the inner except clause does not catch
ParseNumber(value) ==
    CASE value.t \in {"missing", "none"} -> Skipped
      [] value.t = "str" ->
             IF value.s = <<>> \/ value.s = <<"N", "A">> THEN Skipped
             ELSE IntOfFloatStr(float_of_str(value.s))
      [] value.t = "int" -> Parsed(value.n)
      [] value.t = "float" -> Parsed(TruncTenths(value.n))
      [] OTHER -> Skipped

\* the list one of the three loops builds: the parsed values in sample order
RECURSIVE ParsedValues(_, _)
ParsedValues(trials, field) ==
    IF trials = <<>> THEN <<>>
    ELSE IF ParseNumber(trials[Len(trials)][field]).kind = "value"
    THEN Append(ParsedValues(SubSeq(trials, 1, Len(trials) - 1), field),
                ParseNumber(trials[Len(trials)][field]).n)
    ELSE ParsedValues(SubSeq(trials, 1, Len(trials) - 1), field)

NumericFields == {"minimum_age", "maximum_age", "enrollment"}

\* some value of the sample makes int() raise OverflowError
RaisesOverflow(trials) ==
    \E i \in 1..Len(trials) : \E field \in NumericFields :
        ParseNumber(trials[i][field]).kind = "OverflowError"

\* A median is held doubled, so that the mean of two middle values stays an
\* integer; defined is FALSE for None.
Undefined == [defined |-> FALSE, twice |-> 0]

Ascending(a, b) == a < b

\* Variant of the median that takes the lower of two middle values.
median_low(values) ==
    IF values = <<>> THEN Undefined
    ELSE [defined |-> TRUE,
          twice |-> 2 * SortSeq(values, Ascending)[(Len(values) + 1) \div 2]]

\* statistics.median(values) if values else None
median(values) ==
    IF values = <<>> THEN Undefined
    ELSE IF Len(values) % 2 = 1
    THEN [defined |-> TRUE,
          twice |-> 2 * SortSeq(values, Ascending)[(Len(values) + 1) \div 2]]
    ELSE [defined |-> TRUE,
          twice |-> SortSeq(values, Ascending)[Len(values) \div 2]
                        + SortSeq(values, Ascending)[Len(values) \div 2 + 1]]

\* int(m) of a median
IntOfMedian(m) ==
    IF m.twice >= 0 THEN m.twice \div 2 ELSE 0 - ((0 - m.twice) \div 2)

\* s.split(","): the pieces between commas
RECURSIVE SplitComma(_)
SplitComma(s) ==
    IF ~Contains(s, <<",">>, 1) THEN <<s>>
    ELSE <<Slice(s, 1, Index(s, <<",">>, 1) - 1)>>
             \o SplitComma(Slice(s, Index(s, <<",">>, 1) + 1, Len(s)))

\* [c.strip() for c in parts if c.strip()]
RECURSIVE StripNonEmpty(_)
StripNonEmpty(parts) ==
    IF parts = <<>> THEN <<>>
    ELSE IF Strip(parts[1]) = <<>> THEN StripNonEmpty(Tail(parts))
    ELSE <<Strip(parts[1])>> \o StripNonEmpty(Tail(parts))

\* parse_conditions(cond)
parse_conditions(cond) ==
    IF cond.t = "none" \/ (cond.t = "str" /\ cond.s = <<>>)
           \/ (cond.t = "list" /\ cond.l = <<>>)
    THEN <<>>
    ELSE IF cond.t = "str" THEN StripNonEmpty(SplitComma(cond.s))
    ELSE <<>>

\* all_conditions: the parsed conditions of the trials, in sample order
RECURSIVE all_conditions(_)
all_conditions(trials) ==
    IF trials = <<>> THEN <<>>
    ELSE parse_conditions(Get(trials[1]["conditions"], PyStr(<<>>)))
             \o all_conditions(Tail(trials))

\* Variant of the comprehension that keeps every condition.
DeduplicateNothing(conditions, seen) == conditions

\* [c for c in all_conditions if not (c in seen or seen.add(c))]
RECURSIVE Deduplicate(_, _)
Deduplicate(conditions, seen) ==
    IF conditions = <<>> THEN <<>>
    ELSE IF conditions[1] \in seen THEN Deduplicate(Tail(conditions), seen)
    ELSE <<conditions[1]>>
             \o Deduplicate(Tail(conditions), seen \cup {conditions[1]})

unique_conditions(trials) == Deduplicate(all_conditions(trials), {})

(***************************************************************************)
(* Feasibility of recruitment, server.py 301-319.  The target enrollment   *)
(* is a median, so it is held doubled; a ratio is a fraction num/den with  *)
(* den > 0, and a threshold is held in tenths.                             *)
(***************************************************************************)
HighRatio == 15      \* available_ratio >= 1.5
MediumRatio == 10    \* available_ratio >= 1.0
MinimalRatio == 20   \* available_ratio >= 2.0
ModerateRatio == 12  \* available_ratio >= 1.2

\* len(patients) / target_enrollment if target_enrollment > 0 else 0
available_ratio(available, target2) ==
    IF target2 > 0 THEN [num |-> 2 * available, den |-> target2]
    ELSE [num |-> 0, den |-> 1]

\* ratio >= tenths / 10
RatioAtLeast(ratio, tenths) == 10 * ratio.num >= tenths * ratio.den

\* Variant of the level that leaves the boundary ratio in the lower band.
feasibility_level_strict(ratio) ==
    IF 10 * ratio.num > HighRatio * ratio.den THEN "HIGH"
    ELSE IF 10 * ratio.num > MediumRatio * ratio.den THEN "MEDIUM"
    ELSE "LOW"

feasibility_level(ratio) ==
    IF RatioAtLeast(ratio, HighRatio) THEN "HIGH"
    ELSE IF RatioAtLeast(ratio, MediumRatio) THEN "MEDIUM"
    ELSE "LOW"

recruitment_risk(ratio) ==
    IF RatioAtLeast(ratio, MinimalRatio) THEN "Minimal"
    ELSE IF RatioAtLeast(ratio, ModerateRatio) THEN "Moderate"
    ELSE "High"

(***************************************************************************)
(* round(available_ratio, 2), in hundredths.  The ratio is the double      *)
(* nearest to num/den and round() rounds the exact value of that double,   *)
(* so a quotient lying exactly between two hundredths goes to the side its *)
(* double falls on; only a quotient that is a double itself (a multiple of *)
(* 1/8 here) is a true tie and goes to the even hundredth.                 *)
(***************************************************************************)
\* 2^n mod 25
RECURSIVE Pow2Mod25(_)
Pow2Mod25(n) == IF n = 0 THEN 1 ELSE (2 * Pow2Mod25(n - 1)) % 25

\* j * 2^(-shift) lies in [200, 400): shift is the binary exponent of j/200
RECURSIVE ExponentOf(_, _)
ExponentOf(j, shift) ==
    IF j < 200 THEN ExponentOf(2 * j, shift - 1)
    ELSE IF j >= 400 THEN ExponentOf(j \div 2, shift + 1)
    ELSE shift

\* the double nearest to j/200 (j odd, not a multiple of 25) is above it:
\* its 53-bit mantissa is j * 2^(49 - exponent) / 25 rounded to nearest
DoubleIsAbove(j) == 2 * ((j * Pow2Mod25(49 - ExponentOf(j, 0))) % 25) > 25

\* round(num / den, 2) for num >= 0, den > 0
Round2(num, den) ==
    IF 2 * ((100 * num) % den) < den THEN (100 * num) \div den
    ELSE IF 2 * ((100 * num) % den) > den THEN (100 * num) \div den + 1
    ELSE IF (2 * ((100 * num) \div den) + 1) % 25 = 0
    THEN (100 * num) \div den + (((100 * num) \div den) % 2)
    ELSE IF DoubleIsAbove(2 * ((100 * num) \div den) + 1)
    THEN (100 * num) \div den + 1
    ELSE (100 * num) \div den

\* the feasibility dictionary (availability_ratio in hundredths)
feasibility(available, target2) ==
    [target_enrollment2 |-> target2,
     available_patients |-> available,
     availability_ratio |-> Round2(available_ratio(available, target2).num,
                                   available_ratio(available, target2).den),
     feasibility_level |-> feasibility_level(available_ratio(available, target2)),
     recruitment_risk |-> recruitment_risk(available_ratio(available, target2))]

MaxAvailable == 8   \* matched patients handed to the assessment
MaxTarget == 5      \* largest target enrollment assessed
MinTarget == 1      \* how far below zero a target enrollment goes
DefaultMaxPatients == 200    \* max_patients: int = 200

\* the assessments made: every small cohort against every small target, and
\* the cohort the default max_patients allows against a target one above it
FeasibilityInputs ==
    ((0..MaxAvailable) \X ((0 - 2 * MinTarget)..(2 * MaxTarget)))
        \cup {<<DefaultMaxPatients, 2 * (DefaultMaxPatients + 1)>>}

FeasibilityInit ==
    /\ ChunkerIdle
    /\ MatcherIdle
    /\ PoolIdle
    /\ ConcurrentIdle
    /\ ToolIdle
    /\ NodesIdle
    /\ \E in \in FeasibilityInputs : fAvailable = in[1] /\ fTarget = in[2]
    /\ fResult = EmptyDict

Assess ==
    /\ fResult = EmptyDict
    /\ fResult' = feasibility(fAvailable, fTarget)
    /\ UNCHANGED <<fAvailable, fTarget>>
    /\ UNCHANGED <<chunkerVars, matcherVars, poolVars, concVars, toolVars, nodeVars>>

FeasibilityNext == Assess

FeasibilitySpec == FeasibilityInit /\ [][FeasibilityNext]_vars

(***************************************************************************)
(* The collaborators of the tools.  get_vector_store() / vs.search() and   *)
(* get_db() / db.find_eligible_patients() either return or raise; what     *)
(* they return is drawn from the sets below.                               *)
(***************************************************************************)
MaxTrials == 3    \* trials the retrieval collaborator returns
MaxMatched == 3   \* patients the persistence collaborator returns

\* classes that `except Exception` covers
ExceptionClasses ==
    {"ConnectionError", "TimeoutError", "OverflowError", "ValueError", "TypeError"}

\* the ways a collaborator fails: unreachable, timeout
Failures == {"ConnectionError", "TimeoutError"}

\* what a call of a collaborator does
Fails(kind) == [raised |-> kind, value |-> <<>>]
Gives(value) == [raised |-> "none", value |-> value]

Trial(conditions, minimum_age, maximum_age, enrollment) ==
    [conditions |-> conditions, minimum_age |-> minimum_age,
     maximum_age |-> maximum_age, enrollment |-> enrollment]

\* every field a plain value
PlainTrial ==
    Trial(PyStr(<<"f", "l", "u", ",", " ", "c", "o", "l", "d">>), PyStr(<<"1", "8">>), PyStr(<<"6", "5">>), PyInt(100))

\* padded text, the placeholder NA, a decimal enrollment
PaddedTrial ==
    Trial(PyStr(<<"c", "o", "l", "d", ",", ",", " ", "F", "l", "u", " ">>),
          PyStr(<<" ", "3", "0", " ">>), PyStr(<<"N", "A">>), PyStr(<<"1", "2", "0", ".", "9">>))

\* no conditions key, an age with its unit, a float age
UnitTrial ==
    Trial(PyMissing, PyStr(<<"1", "8", " ", "Y", "e", "a", "r", "s">>), PyFloat(705), PyStr(<<"2">>))

\* empty conditions, a not-a-number age, no maximum age
NanTrial ==
    Trial(PyStr(<<>>), PyStr(<<"n", "a", "n">>), PyMissing, PyStr(<<"-", "0", ".", "5">>))

\* conditions already a list, ages and enrollment as integers
ListTrial ==
    Trial(PyList(<<<<"f", "l", "u">>>>), PyInt(0), PyStr(<<"8", "0">>), PyInt(80))

\* an age that float() reads as infinity
InfTrial ==
    Trial(PyStr(<<"g", "o", "u", "t">>), PyStr(<<"i", "n", "f">>), PyStr(<<"6", "4">>), PyStr(<<"7", "5">>))

\* null conditions and age, an empty age, a negative enrollment
NullTrial ==
    Trial(PyNone, PyNone, PyStr(<<>>), PyStr(<<"-", "1">>))

Trials ==
    {PlainTrial, PaddedTrial, UnitTrial, NanTrial, ListTrial, InfTrial, NullTrial}

RECURSIVE Samples(_)
Samples(n) ==
    IF n = 0 THEN {<<>>}
    ELSE Samples(n - 1) \cup {Append(s, t) : s \in Samples(n - 1), t \in Trials}

Queries == {<<"f", "l", "u", " ", "t", "r", "i", "a", "l">>, <<"g", "o", "u", "t">>}

\* the i-th row of the patient table
DbPatient(i) ==
    [patient_id |-> i,
     age |-> 20 + 15 * i,
     gender |-> IF i % 2 = 1 THEN "F" ELSE "M",
     race |-> IF i % 3 = 0 THEN "Asian" ELSE "White",
     ethnicity |-> "Not Hispanic"]

\* what a patient lookup with this limit can return: at most limit rows
Lookups(limit) ==
    {[i \in 1..k |-> DbPatient(i)] : k \in 0..Min({MaxMatched, IF limit < 0 THEN 0 ELSE limit})}

(***************************************************************************)
(* The demographics summary, server.py 124-142 and 281-299.                *)
(***************************************************************************)
RECURSIVE SumOf(_)
SumOf(values) == IF values = <<>> THEN 0 ELSE values[1] + SumOf(Tail(values))

\* round(total / n, 1) in tenths, for total >= 0: ties go to the even tenth
RoundedMean(total, n) ==
    IF 2 * ((10 * total) % n) < n THEN (10 * total) \div n
    ELSE IF 2 * ((10 * total) % n) > n THEN (10 * total) \div n + 1
    ELSE IF ((10 * total) \div n) % 2 = 0 THEN (10 * total) \div n
    ELSE (10 * total) \div n + 1

Ages(patients) == [i \in 1..Len(patients) |-> patients[i].age]

MinOf(values) == Min({values[i] : i \in 1..Len(values)})
MaxOf(values) == 0 - Min({0 - values[i] : i \in 1..Len(values)})

\* summary[key][p[key]] = summary[key].get(p[key], 0) + 1, for each patient
CountBy(patients, key) ==
    [v \in {patients[i][key] : i \in 1..Len(patients)} |->
        Cardinality({i \in 1..Len(patients) : patients[i][key] = v})]

demographics_summary(patients) ==
    [total |-> Len(patients),
     age |-> IF patients = <<>> THEN EmptyDict
             ELSE [min |-> MinOf(Ages(patients)),
                   max |-> MaxOf(Ages(patients)),
                   median2 |-> median(Ages(patients)).twice,
                   mean10 |-> RoundedMean(SumOf(Ages(patients)), Len(patients))],
     gender |-> CountBy(patients, "gender"),
     race |-> CountBy(patients, "race"),
     ethnicity |-> CountBy(patients, "ethnicity")]

(***************************************************************************)
(* analyze_trials_and_match_patients, server.py 172-359.                   *)
(***************************************************************************)
DefaultPatientLimit == 100   \* patient_limit without an enrollment median
SmallCap == 2                \* a max_patients below the enrollments

PatientCaps == {SmallCap, DefaultMaxPatients}

AnalyzeRequest(query, top_k_trials, max_patients) ==
    [tool |-> "analyze_trials_and_match_patients", query |-> query,
     top_k_trials |-> top_k_trials, max_patients |-> max_patients]

\* trial_copy["conditions_parsed"] = parse_conditions(t.get("conditions", ""))
trials_with_parsed_conditions(trials) ==
    [i \in 1..Len(trials) |->
        [trial |-> trials[i],
         conditions_parsed |->
             parse_conditions(Get(trials[i]["conditions"], PyStr(<<>>)))]]

\* Variant of the limit that leaves out the max_patients cap.
patient_limit_uncapped(enrollment, max_patients) ==
    IF enrollment.defined THEN IntOfMedian(enrollment) ELSE DefaultPatientLimit

\* int(inferred_enrollment) if inferred_enrollment is not None else 100,
\* then min(patient_limit, max_patients)
patient_limit(enrollment, max_patients) ==
    Min({IF enrollment.defined THEN IntOfMedian(enrollment)
         ELSE DefaultPatientLimit,
         max_patients})

inferred_criteria(trials, max_patients) ==
    [conditions |-> unique_conditions(trials),
     median_min_age |-> median(ParsedValues(trials, "minimum_age")),
     median_max_age |-> median(ParsedValues(trials, "maximum_age")),
     median_enrollment |-> median(ParsedValues(trials, "enrollment")),
     patient_limit_used |->
         patient_limit(median(ParsedValues(trials, "enrollment")), max_patients)]

\* Variant of the test that is content with one of the two medians.
NeedsLookupEither(criteria) ==
    criteria.median_min_age.defined \/ criteria.median_max_age.defined

\* if inferred_min_age is not None and inferred_max_age is not None
NeedsLookup(criteria) ==
    criteria.median_min_age.defined /\ criteria.median_max_age.defined

\* Variant of the arguments that asks for max_patients' default, not patient_limit.
LookupArgsDefaultLimit(criteria) ==
    [age_min |-> IntOfMedian(criteria.median_min_age),
     age_max |-> IntOfMedian(criteria.median_max_age),
     required_conditions |->
         IF criteria.conditions # <<>> THEN PyList(criteria.conditions) ELSE PyNone,
     limit |-> DefaultMaxPatients]

\* the arguments of db.find_eligible_patients
LookupArgs(criteria) ==
    [age_min |-> IntOfMedian(criteria.median_min_age),
     age_max |-> IntOfMedian(criteria.median_max_age),
     required_conditions |->
         IF criteria.conditions # <<>> THEN PyList(criteria.conditions) ELSE PyNone,
     limit |-> criteria.patient_limit_used]

\* Variant of the target that is always the patient limit.
target_enrollment_limit_only(criteria) == 2 * criteria.patient_limit_used

\* inferred_enrollment if inferred_enrollment else patient_limit, doubled
target_enrollment(criteria) ==
    IF criteria.median_enrollment.defined /\ criteria.median_enrollment.twice # 0
    THEN criteria.median_enrollment.twice
    ELSE 2 * criteria.patient_limit_used

\* patients, demographics and feasibility as lines 267-269 leave them
NoRecruitment ==
    [demographics_summary |-> EmptyDict,
     matched_patients |-> <<>>,
     feasibility |-> EmptyDict]

Recruitment(criteria, patients) ==
    [demographics_summary |-> demographics_summary(patients),
     matched_patients |-> patients,
     feasibility |-> feasibility(Len(patients), target_enrollment(criteria))]

\* the structured result, lines 322-338
AnalysisResult(request, trials, criteria, recruitment) ==
    [query |-> request.query,
     top_k_trials |-> request.top_k_trials,
     inferred_criteria |-> criteria,
     similar_trials |-> trials_with_parsed_conditions(trials),
     patient_recruitment |-> recruitment]

\* the payload of the except clause, lines 351-359
AnalysisError(request, kind) ==
    [error |-> <<"Analysis failed", kind>>, query |-> request.query]

\* what the persistence collaborator can do when called with these arguments
LookupOutcomes(args) ==
    {Fails(kind) : kind \in Failures} \cup {Gives(p) : p \in Lookups(args.limit)}

\* the try block up to the patient lookup, lines 196-271: the exception
\* raised there, or whether the lookup is to be made
AnalysisHead(search, criteria) ==
    IF search.raised # "none" THEN Fails(search.raised)
    ELSE IF RaisesOverflow(search.value) THEN Fails("OverflowError")
    ELSE Gives(NeedsLookup(criteria))

\* the patient lookup is reached: the search returned, no value overflowed
\* and both age medians exist
ReachesLookup(head) == head.raised = "none" /\ head.value

NotCalled == Fails("not called")

\* what the lookup of this request can do
AnalysisLookups(head, criteria) ==
    IF ReachesLookup(head) THEN LookupOutcomes(LookupArgs(criteria))
    ELSE {NotCalled}

\* the try block, lines 196-349: the result it returns or the exception
\* raised inside it
AnalysisBody(request, search, criteria, head, lookup) ==
    IF head.raised # "none" THEN head
    ELSE IF ~head.value
    THEN Gives(AnalysisResult(request, search.value, criteria, NoRecruitment))
    ELSE IF lookup.raised # "none" THEN Fails(lookup.raised)
    ELSE Gives(AnalysisResult(request, search.value, criteria,
                              Recruitment(criteria, lookup.value)))

\* Variant of the except clause that names the two parsing errors only.
CatchesParsingErrors(kind) == kind \in {"ValueError", "TypeError"}

\* except Exception
Catches(kind) == kind \in ExceptionClasses

\* try: body / except Exception as e: payload
\* the tool returns the body's value or the handler's payload, and an
\* exception the handler does not cover leaves the tool
Boundary(body, payload) ==
    IF body.raised = "none" THEN [response |-> body.value, escaped |-> "none"]
    ELSE IF Catches(body.raised) THEN [response |-> payload, escaped |-> "none"]
    ELSE [response |-> EmptyDict, escaped |-> body.raised]

\* the effect of one tool call on the state
Serve(request, outcome, searches, lookups) ==
    /\ tRequest' = request
    /\ tResponse' = outcome.response
    /\ tEscaped' = outcome.escaped
    /\ tSearches' = searches
    /\ tDbCalls' = lookups
    /\ UNCHANGED <<chunkerVars, matcherVars, poolVars, concVars, feasVars, nodeVars>>

Call(args, outcome) == [args |-> args, outcome |-> outcome]

\* vs.search(query=query, top_k=top_k_trials, filters=None, enrich_from_db=True)
AnalysisSearchArgs(request) ==
    [query |-> request.query, top_k |-> request.top_k_trials, filters |-> PyNone]

AnalyzeReturns(request, search, criteria, head, lookup, body) ==
    Serve(request,
          Boundary(body, AnalysisError(request, body.raised)),
          <<Call(AnalysisSearchArgs(request), search)>>,
          IF ReachesLookup(head) THEN <<Call(LookupArgs(criteria), lookup)>>
          ELSE <<>>)

AnalyzeLooksUp(request, search, criteria, head) ==
    \E lookup \in AnalysisLookups(head, criteria) :
        AnalyzeReturns(request, search, criteria, head, lookup,
                       AnalysisBody(request, search, criteria, head, lookup))

AnalyzeSearches(request, search, criteria) ==
    AnalyzeLooksUp(request, search, criteria, AnalysisHead(search, criteria))

\* what the retrieval collaborator can do when asked for top_k trials
SearchOutcomes(top_k) ==
    {Fails(kind) : kind \in Failures} \cup {Gives(t) : t \in Samples(top_k)}

AnalyzeTool ==
    /\ tRequest = EmptyDict
    /\ \E query \in Queries, top_k \in 1..MaxTrials, max_patients \in PatientCaps :
           \E search \in SearchOutcomes(top_k) :
               AnalyzeSearches(AnalyzeRequest(query, top_k, max_patients), search,
                               inferred_criteria(search.value, max_patients))

(***************************************************************************)
(* search_trials, server.py 28-86.                                         *)
(***************************************************************************)
\* the truth value of an argument: None, "" and 0 are false
Truthy(value) ==
    CASE value.t = "none" -> FALSE
      [] value.t = "str" -> value.s # <<>>
      [] value.t = "int" -> value.n # 0
      [] OTHER -> TRUE

Phases == {PyNone, PyStr(<<>>), PyStr(<<"P", "h", "a", "s", "e", " ", "2">>)}
Statuses == {PyNone, PyStr(<<"R", "E", "C", "R", "U", "I", "T", "I", "N", "G">>)}
MinEnrollments == {PyNone, PyInt(0), PyInt(DefaultPatientLimit)}

SearchRequest(query, top_k, phase, trial_status, min_enrollment) ==
    [tool |-> "search_trials", query |-> query, top_k |-> top_k, phase |-> phase,
     status |-> trial_status, min_enrollment |-> min_enrollment]

\* the three filter arguments as a dictionary
FilterDict(request) ==
    [phase |-> request.phase, status |-> request.status,
     min_enrollment |-> request.min_enrollment]

\* filters = None, replaced by the dictionary if phase or status or
\* min_enrollment
SearchFilters(request) ==
    IF Truthy(request.phase) \/ Truthy(request.status)
           \/ Truthy(request.min_enrollment)
    THEN FilterDict(request)
    ELSE PyNone

SearchArgs(request) ==
    [query |-> request.query, top_k |-> request.top_k,
     filters |-> SearchFilters(request)]

SearchResult(request, trials) ==
    [query |-> request.query, filters |-> FilterDict(request),
     count |-> Len(trials), trials |-> trials]

SearchError(request, kind) ==
    [error |-> <<"Search failed", kind>>, query |-> request.query,
     count |-> 0, trials |-> <<>>]

\* the try block, lines 51-78
SearchBody(request, search) ==
    IF search.raised # "none" THEN Fails(search.raised)
    ELSE Gives(SearchResult(request, search.value))

SearchServed(request, search) ==
    Serve(request,
          Boundary(SearchBody(request, search),
                   SearchError(request, SearchBody(request, search).raised)),
          <<Call(SearchArgs(request), search)>>,
          <<>>)

SearchTrialsTool ==
    /\ tRequest = EmptyDict
    /\ \E query \in Queries, top_k \in 1..MaxTrials, phase \in Phases,
          trial_status \in Statuses, min_enrollment \in MinEnrollments :
           \E search \in SearchOutcomes(1) :
               SearchServed(
                   SearchRequest(query, top_k, phase, trial_status, min_enrollment),
                   search)

(***************************************************************************)
(* find_eligible_patients, server.py 94-164.                               *)
(***************************************************************************)
AdultAge == 18     \* an age_min a caller passes
SeniorAge == 65    \* an age_max a caller passes

RequiredConditions == {PyNone, PyList(<<>>), PyList(<<KeyFlu, KeyGout>>)}

PatientsRequest(age_min, age_max, required_conditions, limit) ==
    [tool |-> "find_eligible_patients", age_min |-> age_min, age_max |-> age_max,
     required_conditions |-> required_conditions, limit |-> limit]

PatientsArgs(request) ==
    [age_min |-> request.age_min, age_max |-> request.age_max,
     required_conditions |-> request.required_conditions,
     limit |-> request.limit]

\* required_conditions or []
ConditionsOrEmpty(required_conditions) ==
    IF required_conditions.t = "list" /\ required_conditions.l # <<>>
    THEN required_conditions
    ELSE PyList(<<>>)

\* the echo of the request in both payloads
Criteria(request) ==
    [age_min |-> request.age_min, age_max |-> request.age_max,
     required_conditions |-> ConditionsOrEmpty(request.required_conditions)]

PatientsResult(request, patients) ==
    [criteria |-> Criteria(request),
     demographics_summary |-> demographics_summary(patients),
     patients |-> patients]

PatientsError(request, kind) ==
    [error |-> <<"Patient search failed", kind>>,
     criteria |-> Criteria(request),
     demographics_summary |-> [total |-> 0],
     patients |-> <<>>]

\* the try block, lines 115-152
PatientsBody(request, lookup) ==
    IF lookup.raised # "none" THEN Fails(lookup.raised)
    ELSE Gives(PatientsResult(request, lookup.value))

PatientsServed(request, lookup) ==
    Serve(request,
          Boundary(PatientsBody(request, lookup),
                   PatientsError(request, PatientsBody(request, lookup).raised)),
          <<>>,
          <<Call(PatientsArgs(request), lookup)>>)

FindPatientsTool ==
    /\ tRequest = EmptyDict
    /\ \E age_min \in {0, AdultAge}, age_max \in {AdultAge, SeniorAge},
          required_conditions \in RequiredConditions,
          limit \in {0, SmallCap, DefaultPatientLimit} :
           \E lookup \in LookupOutcomes(
                             PatientsArgs(PatientsRequest(
                                 age_min, age_max, required_conditions, limit))) :
               PatientsServed(
                   PatientsRequest(age_min, age_max, required_conditions, limit),
                   lookup)

ToolInit ==
    /\ ChunkerIdle
    /\ MatcherIdle
    /\ PoolIdle
    /\ ConcurrentIdle
    /\ ToolIdle
    /\ FeasibilityIdle
    /\ NodesIdle

ToolNext ==
    \/ SearchTrialsTool
    \/ FindPatientsTool
    \/ AnalyzeTool

ToolSpec == ToolInit /\ [][ToolNext]_vars

(***************************************************************************)
(* create_nodes (create_vectordb.py): the documents of the input file are  *)
(* sampled, each sampled document is chunked and every chunk becomes one   *)
(* TextNode carrying the document's metadata and its chunk_index.          *)
(***************************************************************************)
NodesMaxLength == 4096   \* ClinicalTrialChunker(content["document"], max_length=4096)
MaxDocs == 2             \* documents in the input file

\* str(n) of a non-negative int
RECURSIVE Decimal(_)
Decimal(n) ==
    IF n < 10 THEN <<Digits[n + 1]>> ELSE Decimal(n \div 10) \o <<Digits[(n % 10) + 1]>>

ConditionsCountKey == <<"c", "o", "n", "d", "i", "t", "i", "o", "n", "s", "_", "c", "o", "u", "n", "t">>
InterventionsCountKey == <<"i", "n", "t", "e", "r", "v", "e", "n", "t", "i", "o", "n", "s", "_", "c", "o", "u", "n", "t">>
OutcomesCountKey == <<"o", "u", "t", "c", "o", "m", "e", "s", "_", "c", "o", "u", "n", "t">>
ChunkIndexKey == <<"c", "h", "u", "n", "k", "_", "i", "n", "d", "e", "x">>
PhaseKey == <<"p", "h", "a", "s", "e">>

\* f"condition_{i+1}", i + 1 passed as k
ConditionKey(k) == <<"c", "o", "n", "d", "i", "t", "i", "o", "n", "_">> \o Decimal(k)

\* Variant of the exclusion list that leaves the count fields out.
excluded_keys_conditions_only(count) == [i \in 1..count |-> ConditionKey(i)]

\* lines 32-33: the exclusion list of a document whose conditions_count is count
excluded_keys(count) ==
    [i \in 1..count |-> ConditionKey(i)] \o <<InterventionsCountKey, OutcomesCountKey>>

InList(k, list) == \E i \in 1..Len(list) : list[i] = k

\* line 35: the metadata items whose key is not in the exclusion list
base_metadata(metadata, excluded) ==
    [k \in {key \in DOMAIN metadata : ~InList(key, excluded)} |-> metadata[k]]

\* lines 43-46: base_metadata.copy() updated with the chunk's index
chunk_metadata(base, chunk_idx) ==
    [k \in DOMAIN base \cup {ChunkIndexKey} |->
        IF k = ChunkIndexKey THEN PyInt(chunk_idx) ELSE base[k]]

\* f"{nct_id}_chunk_{chunk_idx}"
NodeId(nct_id, chunk_idx) == nct_id \o <<"_", "c", "h", "u", "n", "k", "_">> \o Decimal(chunk_idx)

\* lines 49-55: the node built for one chunk
TextNode(chunk, metadata, excluded, id) ==
    [text |-> chunk.text, metadata |-> metadata,
     excluded_embed_metadata |-> excluded, id_ |-> id]

\* lines 41-56: one node per chunk, in enumerate() order
NodesOfChunks(nct_id, cs, base, excluded) ==
    [i \in 1..Len(cs) |->
        TextNode(cs[i], chunk_metadata(base, i - 1), excluded, NodeId(nct_id, i - 1))]

\* content['metadata'].get("conditions_count", 0)
ConditionsCount(metadata) ==
    IF ConditionsCountKey \in DOMAIN metadata THEN metadata[ConditionsCountKey] ELSE PyInt(0)

\* lines 30-56, one pass of the loop: the nodes of one document, or the
\* exception that ends create_nodes (range() of a non-int count is a
\* TypeError, the chunker refuses an empty document with a ValueError)
ParsedNodes(nct_id, content, parsed_doc, excluded) ==
    IF parsed_doc.raised THEN Fails("ValueError")
    ELSE Gives(NodesOfChunks(
             nct_id,
             create_chunks(content.document, parsed_doc.sections, NodesMaxLength),
             base_metadata(content.metadata, excluded),
             excluded))

DocumentNodes(nct_id, content) ==
    IF ConditionsCount(content.metadata).t # "int" THEN Fails("TypeError")
    ELSE IF EmptyText(content.document) THEN Fails("ValueError")
    ELSE ParsedNodes(nct_id, content, parse(content.document, DEFAULT_SECTIONS),
                     excluded_keys(ConditionsCount(content.metadata).n))

\* the key of the i-th document of the file
DocId(i) == <<"N", "C", "T">> \o Decimal(i)

\* lines 29-56: the loop over the sampled documents, all_nodes so far
RECURSIVE NodesLoop(_, _, _)
NodesLoop(data, sampled, all_nodes) ==
    IF sampled = <<>> THEN Gives(all_nodes)
    ELSE LET r == DocumentNodes(DocId(sampled[1]), data[sampled[1]])
         IN  IF r.raised # "none" THEN r
             ELSE NodesLoop(data, Tail(sampled), all_nodes \o r.value)

\* lines 20-22: random.sample(doc_ids, k) gives k distinct documents in an
\* order fixed by the seed; every such selection is allowed here
SampledIds(n, k) ==
    {s \in [1..k -> 1..n] : \A i, j \in 1..k : i # j => s[i] # s[j]}

\* lines 59-66: the summary's average divides by the number of sampled
\* documents; then all_nodes is returned
NodesSummary(sampled, looped) ==
    IF looped.raised # "none" THEN looped
    ELSE IF sampled = <<>> THEN Fails("ZeroDivisionError")
    ELSE looped

\* create_nodes(): what it returns for one selection, or the exception raised
create_nodes(data, sampled) == NodesSummary(sampled, NodesLoop(data, sampled, <<>>))

\* one entry of the input file
Content(metadata, document) == [metadata |-> metadata, document |-> document]

\* a metadata dict given as its items
Dict(items) == [k \in {it[1] : it \in items} |-> (CHOOSE it \in items : it[1] = k)[2]]

Flu == PyStr(<<"f", "l", "u">>)
Cold == PyStr(<<"c", "o", "l", "d">>)

\* the entries the input file is made of: documents of one and of several
\* chunks, an empty document, metadata with and without conditions_count,
\* with more and with fewer condition keys than it announces, with a
\* chunk_index of its own, with a conditions_count that is not an int
Contents ==
    {Content(Dict({<<ConditionsCountKey, PyInt(2)>>, <<ConditionKey(1), Flu>>,
                   <<ConditionKey(2), Cold>>, <<InterventionsCountKey, PyInt(1)>>,
                   <<OutcomesCountKey, PyInt(2)>>, <<PhaseKey, PyStr(<<"P", "2">>)>>}),
             ExampleDoc),
     Content(Dict({<<ConditionsCountKey, PyInt(1)>>, <<ConditionKey(1), Flu>>,
                   <<ConditionKey(2), Cold>>, <<OutcomesCountKey, PyInt(0)>>}),
             TitleSp \o <<"T", "e", "s", "t">>),
     Content(Dict({<<ConditionKey(1), Flu>>, <<InterventionsCountKey, PyInt(3)>>}),
             TitleSp \o <<"U", "\n">> \o InterventionsM \o <<" ", "E">>),
     Content(Dict({<<ConditionsCountKey, PyInt(12)>>, <<ConditionKey(1), Flu>>,
                   <<ConditionKey(12), Cold>>, <<ChunkIndexKey, PyInt(7)>>}),
             TitleSp \o <<"T">> \o <<"\n">> \o ConditionsM \o <<" ", "C", "\n">>
                 \o LocationsM \o <<" ", "D">>),
     Content(Dict({<<ConditionsCountKey, PyInt(0 - 1)>>, <<ConditionKey(1), Flu>>}),
             <<"N", "o", " ", "p", "r", "e", "f", "i", "x">>),
     Content(Dict({<<ConditionsCountKey, PyStr(<<"2">>)>>, <<ConditionKey(1), Flu>>}),
             TitleSp \o <<"V">>),
     Content(Dict({<<ConditionsCountKey, PyInt(1)>>, <<ConditionKey(1), Flu>>}), <<>>)}

\* the files of 1..n entries
RECURSIVE Files(_)
Files(n) ==
    IF n = 0 THEN {<<>>}
    ELSE Files(n - 1) \cup {Append(f, c) : f \in {g \in Files(n - 1) : Len(g) = n - 1},
                                           c \in Contents}

NodesInit ==
    /\ ChunkerIdle
    /\ MatcherIdle
    /\ PoolIdle
    /\ ConcurrentIdle
    /\ ToolIdle
    /\ FeasibilityIdle
    /\ nData \in Files(MaxDocs)
    /\ nSampleSize \in 0..MaxDocs
    /\ nSampled = <<>>
    /\ nOutcome = EmptyDict

\* the effect of create_nodes ending with outcome r on the selection sampled
NodesResult(sampled, r) ==
    /\ nSampled' = sampled
    /\ nOutcome' = r

\* create_nodes(file_path, SAMPLE_SIZE=nSampleSize) on the file nData
CreateNodes ==
    /\ nOutcome = EmptyDict
    /\ IF nSampleSize > Len(nData)
       THEN NodesResult(<<>>, Fails("ValueError"))
       ELSE \E sampled \in SampledIds(Len(nData), nSampleSize) :
                NodesResult(sampled, create_nodes(nData, sampled))
    /\ UNCHANGED <<nData, nSampleSize>>
    /\ UNCHANGED <<chunkerVars, matcherVars, poolVars, concVars, toolVars, feasVars>>

NodesNext == CreateNodes

NodesSpec == NodesInit /\ [][NodesNext]_vars

(***************************************************************************)
(* Reading the chunk list: which section a chunk belongs to, what it holds.*)
(***************************************************************************)
Title == sections["title"].v

HasPrefix(s, pre) == Len(s) >= Len(pre) /\ Slice(s, 1, Len(pre)) = pre

ScalarKeys == {"conditions", "inclusion", "exclusion", "locations", "interventions"}
OutcomeKeys == {"primary_outcomes", "secondary_outcomes"}

LabelOf(key) ==
    CASE key = "conditions" -> LblConditions
      [] key = "inclusion" -> LblInclusion
      [] key = "exclusion" -> LblExclusion
      [] key = "locations" -> LblLocations
      [] key = "interventions" -> LblInterventions
      [] key = "primary_outcomes" -> LblPrimary
      [] key = "secondary_outcomes" -> LblSecondary

\* the header every chunk of the section starts with
HeaderOf(key) ==
    IF key \in OutcomeKeys THEN OutcomeHeader(Title, LabelOf(key))
    ELSE SplitHeader(Title, LabelOf(key))

\* the content of a section as a string or a list, "" / [] alike empty
ContentOf(key) == sections[key].v

\* the entries of an outcome section (none while it still holds a str)
EntriesOf(key) == IF sections[key].t = "list" THEN sections[key].v ELSE <<>>

ChunksOf(cs, key) == SelectSeq(cs, LAMBDA c : HasPrefix(c.text, HeaderOf(key)))

BodyOf(c, key) == Slice(c.text, Len(HeaderOf(key)) + 1, Len(c.text))

RECURSIVE TokensOfChunks(_, _)
TokensOfChunks(cs, key) ==
    IF cs = <<>> THEN <<>>
    ELSE SplitWords(BodyOf(cs[1], key)) \o TokensOfChunks(Tail(cs), key)

\* the formatted section is longer than max_length
TooLong(key) == Len(BaseText(Title, LabelOf(key), ContentOf(key))) > max_length

\* the splitter's budget for the section
RemainingOf(key) == max_length - Len(SplitHeader(Title, LabelOf(key)))

\* position of a chunk's section in the emission order (7: none of them)
RankOf(c) ==
    IF c.text = TitleSp \o Title \/ HasPrefix(c.text, HeaderOf("conditions")) THEN 0
    ELSE IF HasPrefix(c.text, HeaderOf("inclusion")) THEN 1
    ELSE IF HasPrefix(c.text, HeaderOf("exclusion")) THEN 2
    ELSE IF HasPrefix(c.text, HeaderOf("locations")) THEN 3
    ELSE IF HasPrefix(c.text, HeaderOf("interventions")) THEN 4
    ELSE IF HasPrefix(c.text, HeaderOf("primary_outcomes")) THEN 5
    ELSE IF HasPrefix(c.text, HeaderOf("secondary_outcomes")) THEN 6
    ELSE 7

IsTitleOnly(c) == c.text = TitleSp \o Title

\* the chunk of the low-budget fallback of some section
IsFallbackChunk(c) ==
    \E key \in ScalarKeys :
        /\ ContentOf(key) # <<>>
        /\ TooLong(key)
        /\ RemainingOf(key) <= FallbackRemaining
        /\ c.text = HeaderOf(key) \o Prefix(ContentOf(key), FallbackChars)

\* a splitter chunk holding one token
IsSingleTokenChunk(c) ==
    \E key \in ScalarKeys :
        /\ TooLong(key)
        /\ RemainingOf(key) > FallbackRemaining
        /\ HasPrefix(c.text, HeaderOf(key))
        /\ Len(SplitWords(BodyOf(c, key))) = 1

\* an outcome chunk holding the single entry e
HoldsOnly(c, key, e) == c.text = HeaderOf(key) \o OutcomeText(e)

IsSingleEntryChunk(c) ==
    \E key \in OutcomeKeys :
        \E i \in 1..Len(EntriesOf(key)) : HoldsOnly(c, key, EntriesOf(key)[i])

\* an outcome chunk holding a single entry that alone is longer than max_length
IsOversizedEntryChunk(c) ==
    \E key \in OutcomeKeys :
        \E i \in 1..Len(EntriesOf(key)) :
            /\ HoldsOnly(c, key, EntriesOf(key)[i])
            /\ Len(OutcomeText(EntriesOf(key)[i])) > max_length

(***************************************************************************)
(* C1.  Token preservation of the long-content splitter.                   *)
(***************************************************************************)
TokensKept(key) ==
    TokensOfChunks(ChunksOf(chunks, key), key) = SplitWords(ContentOf(key))

C2_SizeWithTwoExceptions ==
    fresh =>
        \A i \in 1..Len(chunks) :
            \/ Len(chunks[i].text) <= max_length
            \/ IsFallbackChunk(chunks[i])
            \/ IsOversizedEntryChunk(chunks[i])

\* C2 amended: every chunk is within max_length, except the fallback chunk,
\* the title-only overview chunk, a splitter chunk holding a single token, and
\* an outcome chunk holding a single entry; every chunk holding two or more
\* tokens or entries, and every unsplit section chunk, is within max_length.
C2_SizeWithFourExceptions ==
    fresh =>
        \A i \in 1..Len(chunks) :
            \/ Len(chunks[i].text) <= max_length
            \/ IsFallbackChunk(chunks[i])
            \/ IsTitleOnly(chunks[i])
            \/ IsSingleTokenChunk(chunks[i])
            \/ IsSingleEntryChunk(chunks[i])

\* a multi-token splitter chunk and a multi-entry outcome chunk were emitted
C2_Witness ==
    /\ fresh
    /\ \E i \in 1..Len(chunks) :
           /\ RankOf(chunks[i]) \in 1..4
           /\ ~IsFallbackChunk(chunks[i])
           /\ ~IsSingleTokenChunk(chunks[i])
           /\ \E key \in ScalarKeys :
                  TooLong(key) /\ HasPrefix(chunks[i].text, HeaderOf(key))
    /\ \E i \in 1..Len(chunks) :
           /\ RankOf(chunks[i]) \in 5..6
           /\ ~IsSingleEntryChunk(chunks[i])

(***************************************************************************)
(* C3.  Emission order.                                                    *)
(***************************************************************************)
\* C3: the chunks come in the fixed section order (overview/conditions,
\* inclusion, exclusion, locations, interventions, primary outcomes, secondary
\* outcomes), the first chunk is the overview's, and two calls reading the
\* same section map return the same chunk sequence.
C3_FixedOrder ==
    /\ fresh =>
           /\ Len(chunks) >= 1
           /\ RankOf(chunks[1]) = 0
           /\ \A i \in 1..Len(chunks) : RankOf(chunks[i]) <= 6
           /\ \A i \in 1..Len(chunks) :
                  \A j \in i..Len(chunks) : RankOf(chunks[i]) <= RankOf(chunks[j])
    /\ (calls >= 2 /\ sameInput) => chunks = prevChunks

\* every one of the seven sections emitted chunks, some of them several
C3_Witness ==
    /\ fresh
    /\ calls >= 2
    /\ sameInput
    /\ {RankOf(chunks[i]) : i \in 1..Len(chunks)} = 0..6
    /\ Len(chunks) > 7

(***************************************************************************)
(* C4.  Outcome packing.                                                   *)
(***************************************************************************)
\* the formatted entries that grouping f puts into chunk k, in entry order
RECURSIVE RunText(_, _, _, _)
RunText(entries, f, k, i) ==
    IF i > Len(entries) THEN <<>>
    ELSE (IF f[i] = k THEN OutcomeText(entries[i]) ELSE <<>>)
             \o RunText(entries, f, k, i + 1)

\* cs holds the entries, each once and whole, in order, in consecutive runs,
\* and an entry longer than max_length shares its chunk with no other
PacksEntries(cs, key, entries) ==
    \E f \in [1..Len(entries) -> 1..Len(cs)] :
        /\ \A i \in 1..Len(entries) : \A j \in i..Len(entries) : f[i] <= f[j]
        /\ \A k \in 1..Len(cs) : \E i \in 1..Len(entries) : f[i] = k
        /\ \A k \in 1..Len(cs) : BodyOf(cs[k], key) = RunText(entries, f, k, 1)
        /\ \A i \in 1..Len(entries) :
               Len(OutcomeText(entries[i])) > max_length =>
                   \A j \in 1..Len(entries) : f[j] = f[i] => j = i

\* C4: for the primary and for the secondary outcome list, each entry is in
\* exactly one outcome chunk, whole, the entries keep their order across the
\* chunks, the chunks do not overlap, each starts with the shared header, and
\* an entry longer than max_length is alone in its chunk; the chunks after the
\* scalar sections' are exactly these outcome chunks.
C4_OutcomePacking ==
    fresh =>
        /\ \A key \in OutcomeKeys :
               PacksEntries(ChunksOf(chunks, key), key, EntriesOf(key))
        /\ Len(SelectSeq(chunks, LAMBDA c : RankOf(c) >= 5))
               = Len(ChunksOf(chunks, "primary_outcomes"))
                   + Len(ChunksOf(chunks, "secondary_outcomes"))

\* a list of three or more entries went into two or more chunks, one of them
\* holding several entries
C4_Witness ==
    /\ fresh
    /\ Len(EntriesOf("primary_outcomes")) >= 3
    /\ Len(ChunksOf(chunks, "primary_outcomes")) >= 2
    /\ Len(ChunksOf(chunks, "primary_outcomes")) < Len(EntriesOf("primary_outcomes"))

(***************************************************************************)
(* C5.  One chunk per non-empty section when everything fits.              *)
(***************************************************************************)
RECURSIVE TotalLen(_)
TotalLen(entries) ==
    IF entries = <<>> THEN 0
    ELSE Len(OutcomeText(entries[1])) + TotalLen(Tail(entries))

\* every formatted section is within max_length
AllFit ==
    /\ \A key \in ScalarKeys : ~TooLong(key)
    /\ \A key \in OutcomeKeys :
           Len(HeaderOf(key)) + TotalLen(EntriesOf(key)) <= max_length

NonEmptySections ==
    {key \in (ScalarKeys \ {"conditions"}) \cup OutcomeKeys : ContentOf(key) # <<>>}

\* the one chunk a section that fits is emitted as
WholeChunk(key) ==
    IF key \in OutcomeKeys
    THEN Chunk(HeaderOf(key) \o RunText(EntriesOf(key), [i \in 1..Len(EntriesOf(key)) |-> 1], 1, 1))
    ELSE Chunk(BaseText(Title, LabelOf(key), ContentOf(key)))

\* C5: when every formatted section fits within max_length, the result is
\* the overview chunk "Title: {title}\nConditions: {conditions}" (also with
\* empty conditions) followed by exactly one chunk per non-empty section and
\* none for an empty one: 1 chunk for a title-only document, 7 when all
\* sections are non-empty.
C5_OneChunkPerSection ==
    (fresh /\ AllFit) =>
        /\ Len(chunks) = 1 + Cardinality(NonEmptySections)
        /\ chunks[1] = WholeChunk("conditions")
        /\ \A key \in NonEmptySections :
               ChunksOf(chunks, key) = <<WholeChunk(key)>>
        /\ \A key \in ((ScalarKeys \ {"conditions"}) \cup OutcomeKeys) \ NonEmptySections :
               ChunksOf(chunks, key) = <<>>

\* all six sections besides the overview are non-empty and fit: 7 chunks
C5_Witness ==
    /\ fresh
    /\ parsed
    /\ AllFit
    /\ Cardinality(NonEmptySections) = 6
    /\ ContentOf("conditions") # <<>>
    /\ Len(chunks) = 7

(***************************************************************************)
(* C6.  Empty input.                                                       *)
(***************************************************************************)
\* C6: construction fails with ValueError exactly for the empty or absent
\* text, before any section map is produced; for every other text the
\* construction succeeds and neither it nor parse raises.
C6_EmptyInputRejected ==
    /\ status # "new" => (status = "failed" <=> (argText = None \/ argText = <<>>))
    /\ status = "failed" =>
           /\ raised = "ValueError"
           /\ text = None
           /\ ~parsed
           /\ \A key \in SectionKeys : sections[key] = Str(<<>>)
           /\ chunks = <<>>
    /\ status = "constructed" => (raised = "none" /\ text = argText)

\* the empty string was handed to the constructor, which raised
C6_Witness == status = "failed" /\ argText = <<>> /\ raised = "ValueError"

(***************************************************************************)
(* C7.  Shape of the section map.                                          *)
(***************************************************************************)
\* C7 as stated: after parse the section map has exactly the eight keys, the
\* first six hold strings, and primary_outcomes and secondary_outcomes hold
\* lists, the empty list when the document has no outcomes block.
C7_OutcomesAlwaysLists ==
    parsed =>
        /\ DOMAIN sections = SectionKeys
        /\ \A key \in SectionKeys \ OutcomeKeys : sections[key].t = "str"
        /\ \A key \in OutcomeKeys : sections[key].t = "list"

(***************************************************************************)
(* C8.  Marker extraction.                                                 *)
(***************************************************************************)
\* sub stands in s at position p
OccursAt(s, p, sub) ==
    \A k \in 1..Len(sub) : p + k - 1 <= Len(s) /\ s[p + k - 1] = sub[k]

\* r is x without its leading and trailing whitespace
IsTrimOf(r, x) ==
    IF \A p \in 1..Len(x) : x[p] \in Whitespace THEN r = <<>>
    ELSE \E a \in 1..Len(x) :
            /\ x[a] \notin Whitespace
            /\ \A p \in 1..(a - 1) : x[p] \in Whitespace
            /\ r # <<>>
            /\ a + Len(r) - 1 <= Len(x)
            /\ r[Len(r)] \notin Whitespace
            /\ \A k \in 1..Len(r) : x[a + k - 1] = r[k]
            /\ \A p \in (a + Len(r))..Len(x) : x[p] \in Whitespace

\* r is what follows position a of source up to the first end marker at or
\* after a (to the end of source without one), trimmed
IsTrimmedUpTo(r, source, a, end) ==
    IF end = None \/ \A j \in a..Len(source) : ~OccursAt(source, j, end)
    THEN IsTrimOf(r, Slice(source, a, Len(source)))
    ELSE \E j \in a..Len(source) :
            /\ OccursAt(source, j, end)
            /\ \A j2 \in a..(j - 1) : ~OccursAt(source, j2, end)
            /\ IsTrimOf(r, Slice(source, a, j - 1))

\* r is the trimmed text between the first start marker of source and the
\* first end marker after it; empty when source has no start marker
IsBetween(r, source, start, end) ==
    IF \A i \in 1..Len(source) : ~OccursAt(source, i, start) THEN r = <<>>
    ELSE \E i \in 1..Len(source) :
            /\ OccursAt(source, i, start)
            /\ \A i2 \in 1..(i - 1) : ~OccursAt(source, i2, start)
            /\ IsTrimmedUpTo(r, source, i + Len(start), end)

\* inclusion and exclusion are cut out of the eligibility block
EligibilitySplit(block) ==
    /\ IsBetween(block, text, EligibilityM, ConditionsM)
    /\ IsBetween(sections["inclusion"].v, block, InclusionM, ExclusionM)
    /\ IsBetween(sections["exclusion"].v, block, ExclusionM, None)

ExampleSections ==
    [key \in SectionKeys |->
        CASE key = "title" -> Str(<<"T", "e", "s", "t">>)
          [] key = "inclusion" -> Str(<<"A">>)
          [] key = "exclusion" -> Str(<<"B">>)
          [] key = "conditions" -> Str(<<"C">>)
          [] key = "locations" -> Str(<<"D">>)
          [] key = "interventions" -> Str(<<"E">>)
          [] key = "primary_outcomes" -> List(<<<<"P", "1">>>>)
          [] key = "secondary_outcomes" -> List(<<<<"S", "1">>>>)]

\* C8: after parse, conditions, locations and interventions are the trimmed
\* text between the first occurrence of their start marker in the document and
\* the first occurrence of their end marker after it (the end of the document
\* without one), inclusion and exclusion are the same within the eligibility
\* block, a section without its start marker is empty, parse does not raise,
\* and the example document parses to A, B, C, D, E, [P1], [S1].
C8_MarkerExtraction ==
    parsed =>
        /\ raised = "none"
        /\ IsBetween(sections["conditions"].v, text, ConditionsM, LocationsM)
        /\ IsBetween(sections["locations"].v, text, LocationsM, InterventionsM)
        /\ IsBetween(sections["interventions"].v, text, InterventionsM, OutcomesM)
        /\ EligibilitySplit(extract_between(text, EligibilityM, ConditionsM).v)
        /\ text = ExampleDoc => sections = ExampleSections

\* a document whose Locations: marker stands before its Conditions: marker and
\* not after it was parsed: conditions runs to the end of the document
C8_Witness ==
    /\ parsed
    /\ OccursAt(text, 10, LocationsM)
    /\ \E i \in 11..Len(text) :
           /\ OccursAt(text, i, ConditionsM)
           /\ \A j \in i..Len(text) : ~OccursAt(text, j, LocationsM)
    /\ sections["conditions"].v # <<>>

CosineAtLeast(a, b, pct) ==
    /\ Dot(Embed(CacheKey(a)), Embed(CacheKey(b))) >= 0
    /\ 10000 * Dot(Embed(CacheKey(a)), Embed(CacheKey(b)))
             * Dot(Embed(CacheKey(a)), Embed(CacheKey(b)))
         >= pct * pct * Dot(Embed(CacheKey(a)), Embed(CacheKey(a)))
                      * Dot(Embed(CacheKey(b)), Embed(CacheKey(b)))

\* C10: match returns True exactly when every required condition has an
\* observed condition whose similarity to it is at least the threshold; so it
\* returns True for no required conditions whatever is observed, and False
\* when one required condition is below the threshold against every observed
\* condition.
C10_MatchIsForAllExists ==
    mCalls > 0 =>
        /\ mResult \in {"True", "False"}
        /\ mResult = "True" <=>
               \A i \in 1..Len(mReq) : \E j \in 1..Len(mObs) :
                   CosineAtLeast(mReq[i], mObs[j], mThreshold)
        /\ mReq = <<>> => mResult = "True"
        /\ (\E i \in 1..Len(mReq) : \A j \in 1..Len(mObs) :
                ~CosineAtLeast(mReq[i], mObs[j], mThreshold)) => mResult = "False"

\* at the default threshold, two required conditions were each met by a
\* different observed condition, one of them at a similarity of exactly 0.75
C10_Witness ==
    /\ mCalls > 0
    /\ mThreshold = DefaultThresholdPct
    /\ mResult = "True"
    /\ Len(mReq) = 2
    /\ Len(mObs) = 2
    /\ \E i \in 1..2 : \E j \in 1..2 :
           /\ CosineAtLeast(mReq[i], mObs[j], DefaultThresholdPct)
           /\ ~CosineAtLeast(mReq[i], mObs[j], DefaultThresholdPct + 1)
    /\ \E i \in 1..2 : \E j \in 1..2 :
           ~CosineAtLeast(mReq[i], mObs[j], DefaultThresholdPct)

(***************************************************************************)
(* C11.  The patient search returns the first eligible candidates.         *)
(***************************************************************************)
\* candidate i of the pool meets every required condition
EligibleAt(i) ==
    \A r \in 1..Len(mReq) : \E o \in 1..Len(mPool[i].conditions) :
        CosineAtLeast(mReq[r], mPool[i].conditions[o], mThreshold)

EligibleIndices == {i \in 1..Len(mPool) : EligibleAt(i)}

\* the eligible candidates that have fewer than n eligible ones before them
FirstEligible(eligible, n) ==
    {i \in eligible : Cardinality({j \in eligible : j < i}) < n}

\* the search returned the candidates at these places, in their order
ReturnedAre(first) ==
    \A k \in 1..Len(mFound) :
        \E i \in first :
            /\ Cardinality({j \in first : j <= i}) = k
            /\ mFound[k] = mPool[i].id

\* the search returned the first mLimit of the eligible places, or all of them
ReturnedFirstOf(eligible) ==
    /\ Len(mFound) = IF mLimit < Cardinality(eligible)
                     THEN mLimit ELSE Cardinality(eligible)
    /\ Len(mFound) <= mLimit
    /\ ReturnedAre(FirstEligible(eligible, mLimit))

\* C11: the search returns exactly the first min(limit, number of eligible
\* candidates) eligible candidates in the pool's iteration order: never more
\* than limit, never an ineligible one, never a later eligible one in place of
\* an earlier one, and in pool order whatever the similarities.
C11_FirstEligibleInPoolOrder ==
    mFound # None => ReturnedFirstOf(EligibleIndices)

\* the limit cut the search short: the candidate returned meets the required
\* condition at a similarity of exactly 0.75 and stands before an eligible
\* candidate that meets it with similarity 1 and was left out
C11_Witness ==
    /\ mFound # None
    /\ mLimit = 1
    /\ Len(mReq) = 1
    /\ mThreshold = DefaultThresholdPct
    /\ Len(mFound) = 1
    /\ \E i, j \in EligibleIndices :
           /\ i < j
           /\ mFound[1] = mPool[i].id
           /\ \A o \in 1..Len(mPool[i].conditions) :
                  ~CosineAtLeast(mReq[1], mPool[i].conditions[o], DefaultThresholdPct + 1)
           /\ \E o \in 1..Len(mPool[j].conditions) :
                  CosineAtLeast(mReq[1], mPool[j].conditions[o], 100)
    /\ \E i \in 1..Len(mPool) : i \notin EligibleIndices

(***************************************************************************)
(* C12.  The embedding cache.                                              *)
(***************************************************************************)
UpperCase == {"F", "C", "G"}

\* s has no upper-case letter and no whitespace at either end
IsNormalized(s) ==
    /\ \A i \in 1..Len(s) : s[i] \notin UpperCase
    /\ s # <<>> => (s[1] \notin Whitespace /\ s[Len(s)] \notin Whitespace)

\* every cache key is the lower-cased trimmed text of a condition and holds
\* that string's embedding, and the collaborator was called once for each key
\* and for nothing else
CacheMemoizes ==
    /\ \A k \in DOMAIN mCache :
           /\ IsNormalized(k)
           /\ \E c \in Conditions : IsTrimOf(k, [i \in 1..Len(c) |-> LowerChar(c[i])])
           /\ mCache[k] = Embed(k)
    /\ \A i, j \in 1..Len(mEmbedded) : mEmbedded[i] = mEmbedded[j] => i = j
    /\ {mEmbedded[i] : i \in 1..Len(mEmbedded)} = DOMAIN mCache

\* no step removes a cache entry or changes the vector it holds
CacheOnlyGrows ==
    \A k \in DOMAIN mCache : k \in DOMAIN mCache' /\ mCache'[k] = mCache[k]

\* C12: over any sequence of match calls the cache only grows, its keys are
\* lower-cased trimmed condition strings each holding its embedding, and the
\* embedding collaborator is called at most once per normalized string, so
\* conditions that differ only in case or surrounding whitespace share one
\* entry.
C12_CacheGrowsAndMemoizes == [](CacheMemoizes) /\ [][CacheOnlyGrows]_vars

\* two calls looked up "Flu " and "flu": the second was a cache hit and the
\* cache holds the single entry "flu" for both
C12_Witness ==
    /\ mCalls = 2
    /\ \E i \in 1..Len(mReq) : mReq[i] = <<"F", "l", "u", " ">>
    /\ \E j \in 1..Len(mObs) : mObs[j] = KeyFlu
    /\ KeyFlu \in DOMAIN mCache
    /\ Cardinality({i \in 1..Len(mEmbedded) : mEmbedded[i] = KeyFlu}) = 1
    /\ Len(mEmbedded) >= 2

(***************************************************************************)
(* C13.  Concurrent requests on the shared cache.                          *)
(***************************************************************************)
\* C13: whatever the interleaving of the requests' cache reads and writes,
\* the cache is a map in which each key holds the embedding of that key, every
\* entry some request wrote is still there, and a finished request has the
\* result match gives for its inputs when run alone on an empty cache.
C13_ConcurrentRequestsAreSafe ==
    /\ \A k \in DOMAIN mCache : IsNormalized(k) /\ mCache[k] = Embed(k)
    /\ cWritten \subseteq DOMAIN mCache
    /\ \A id \in DOMAIN cRequests :
           cRequests[id].pc = "done" =>
               cRequests[id].result =
                   IF match(Memo(EmptyCache, <<>>), cRequests[id].input.required,
                            cRequests[id].input.observed, cRequests[id].input.pct).result
                   THEN "True" ELSE "False"

\* all requests have finished after two of them missed on the same key, both
\* called the collaborator for it and both wrote it, and the cache holds
\* entries written by different requests
C13_Witness ==
    /\ \A id \in DOMAIN cRequests : cRequests[id].pc = "done"
    /\ \E i, j \in 1..Len(mEmbedded) : i # j /\ mEmbedded[i] = mEmbedded[j]
    /\ Cardinality(cWritten) >= 3
    /\ \E id \in DOMAIN cRequests : cRequests[id].result = "True"
    /\ \E id \in DOMAIN cRequests : cRequests[id].result = "False"

(***************************************************************************)
(* C14.  Feasibility level and recruitment risk.                           *)
(***************************************************************************)
\* the ratio of the assessed state, matched patients over target enrollment
\* (0 when the target is not positive), is at least tenths / 10
C14_RatioAtLeast(tenths) ==
    fTarget > 0 /\ 20 * fAvailable >= tenths * fTarget

C14_Row(level, risk) ==
    fResult.feasibility_level = level /\ fResult.recruitment_risk = risk

\* C14: with r the availability ratio, the level is HIGH if r >= 1.5, MEDIUM
\* if 1.0 <= r < 1.5 and LOW if r < 1.0, and the risk is Minimal if r >= 2.0,
\* Moderate if 1.2 <= r < 2.0 and High if r < 1.2; the five rows of the table
\* are: r >= 2.0 HIGH/Minimal, 1.5 <= r < 2.0 HIGH/Moderate, 1.2 <= r < 1.5
\* MEDIUM/Moderate, 1.0 <= r < 1.2 MEDIUM/High, r < 1.0 LOW/High.
C14_LevelAndRiskFollowTheTable ==
    fResult # EmptyDict =>
        /\ C14_RatioAtLeast(20) => C14_Row("HIGH", "Minimal")
        /\ C14_RatioAtLeast(15) /\ ~C14_RatioAtLeast(20) => C14_Row("HIGH", "Moderate")
        /\ C14_RatioAtLeast(12) /\ ~C14_RatioAtLeast(15) => C14_Row("MEDIUM", "Moderate")
        /\ C14_RatioAtLeast(10) /\ ~C14_RatioAtLeast(12) => C14_Row("MEDIUM", "High")
        /\ ~C14_RatioAtLeast(10) => C14_Row("LOW", "High")

\* 8 patients for a target of 5, r = 1.6, assessed HIGH with Moderate risk
C14_Witness ==
    /\ fResult # EmptyDict
    /\ fAvailable = 8
    /\ fTarget = 10
    /\ C14_Row("HIGH", "Moderate")

(***************************************************************************)
(* Reading a served tool request.                                          *)
(***************************************************************************)
Served(tool) == tRequest # EmptyDict /\ tRequest.tool = tool

Analyzed == Served("analyze_trials_and_match_patients")

IsError(payload) == "error" \in DOMAIN payload

\* the retrieval collaborator returned its sample
SearchReturned == tSearches # <<>> /\ tSearches[1].outcome.raised = "none"

\* the sample the retrieval collaborator returned
Sample == tSearches[1].outcome.value

\* the patient lookup was made and failed
LookupFailed == tDbCalls # <<>> /\ tDbCalls[1].outcome.raised # "none"

\* an analysis whose collaborators did not fail
AnalyzedWithoutFailure == Analyzed /\ SearchReturned /\ ~LookupFailed

\* an analysis that returned its structured result
AnalysisCompleted == Analyzed /\ tEscaped = "none" /\ ~IsError(tResponse)

ReportedMedian(field) ==
    CASE field = "minimum_age" -> tResponse.inferred_criteria.median_min_age
      [] field = "maximum_age" -> tResponse.inferred_criteria.median_max_age
      [] field = "enrollment" -> tResponse.inferred_criteria.median_enrollment

(***************************************************************************)
(* C15.  Defensive parsing of the numeric metadata.                        *)
(***************************************************************************)
\* a value that reads as a number: an int, a float, or text float() turns
\* into a finite number
C15_Numeric(value) ==
    \/ value.t \in {"int", "float"}
    \/ value.t = "str" /\ float_of_str(value.s).kind = "num"

\* the values of one field that read as numbers, coerced to integers
RECURSIVE C15_Included(_, _)
C15_Included(trials, field) ==
    IF trials = <<>> THEN <<>>
    ELSE IF C15_Numeric(trials[1][field])
    THEN <<ParseNumber(trials[1][field]).n>> \o C15_Included(Tail(trials), field)
    ELSE C15_Included(Tail(trials), field)

\* C15 as stated: whatever the minimum_age, maximum_age and enrollment values
\* of the sample, a missing, empty or non-numeric one is skipped for that
\* field only, so the analysis neither raises nor ends in the error payload,
\* and every numeric value, coerced to an integer, is used for its field.
C15_MalformedValuesAreSkipped ==
    AnalyzedWithoutFailure =>
        /\ tEscaped = "none"
        /\ ~IsError(tResponse)
        /\ \A field \in NumericFields :
               ReportedMedian(field) = median(C15_Included(Sample, field))

(***************************************************************************)
(* C16.  The inferred medians.                                             *)
(***************************************************************************)
\* the value that r of the values lie below when they are put in order
C16_AtRank(values, r) ==
    CHOOSE x \in {values[i] : i \in 1..Len(values)} :
        /\ Cardinality({i \in 1..Len(values) : values[i] < x}) <= r
        /\ Cardinality({i \in 1..Len(values) : values[i] <= x}) > r

\* twice the median: the middle value counted twice, or the sum of the two
\* middle values
C16_TwiceMedian(values) ==
    C16_AtRank(values, (Len(values) - 1) \div 2) + C16_AtRank(values, Len(values) \div 2)

\* C16: in the result of an analysis the inferred minimum age, maximum age and
\* enrollment are each the median of exactly the values parsed for that field
\* across the sample, whatever the other two fields hold, and each is
\* undefined exactly when no trial gave a parsable value for that field.
C16_MediansOfParsedValues ==
    AnalysisCompleted =>
        \A field \in NumericFields :
            /\ ReportedMedian(field).defined <=> ParsedValues(Sample, field) # <<>>
            /\ ReportedMedian(field).defined =>
                   ReportedMedian(field).twice =
                       C16_TwiceMedian(ParsedValues(Sample, field))

\* the enrollments 80, 100 and 120 gave the median 100, in a sample whose
\* maximum ages are 80 and 65 with one left out
C16_Witness ==
    /\ AnalysisCompleted
    /\ ParsedValues(Sample, "enrollment") = <<80, 100, 120>>
    /\ ReportedMedian("enrollment") = [defined |-> TRUE, twice |-> 200]
    /\ ParsedValues(Sample, "maximum_age") = <<80, 65>>
    /\ ReportedMedian("maximum_age") = [defined |-> TRUE, twice |-> 145]

(***************************************************************************)
(* C17.  The inferred condition set.                                       *)
(***************************************************************************)
\* the conditions text of trial k of the sample ("" unless it is a string)
C17_Text(k) ==
    IF Sample[k]["conditions"].t = "str" THEN Sample[k]["conditions"].s ELSE <<>>

\* the positions of a text where a piece between commas starts
C17_Starts(txt) == {a \in 1..(Len(txt) + 1) : a = 1 \/ txt[a - 1] = ","}

\* where the piece starting at a ends: at the next comma or the end of the text
C17_EndOf(txt, a) ==
    CHOOSE b \in (a - 1)..Len(txt) :
        /\ \A i \in a..b : txt[i] # ","
        /\ b = Len(txt) \/ txt[b + 1] = ","

C17_Piece(txt, a) == Slice(txt, a, C17_EndOf(txt, a))

\* condition c is what the piece starting at a trims to
C17_OccursAt(c, txt, a) == c # <<>> /\ IsTrimOf(c, C17_Piece(txt, a))

\* the places (trial, start) where condition c occurs in the sample
C17_Places(c) ==
    UNION {{<<k, a>> : a \in {x \in C17_Starts(C17_Text(k)) :
                                 C17_OccursAt(c, C17_Text(k), x)}} :
               k \in 1..Len(Sample)}

C17_Before(p, q) == p[1] < q[1] \/ (p[1] = q[1] /\ p[2] < q[2])

\* c first occurs before d when the sample is scanned in order
C17_FirstSeenBefore(c, d) ==
    \E p \in C17_Places(c) : \A q \in C17_Places(d) : C17_Before(p, q)

\* C17: the inferred conditions hold no duplicate, are exactly the comma-split,
\* trimmed, non-empty conditions of the trials of the sample, and stand in the
\* order of their first occurrence when the trials are scanned in sample
\* order.
C17_ConditionsAreOrderedUnion ==
    AnalysisCompleted =>
        /\ \A i, j \in 1..Len(tResponse.inferred_criteria.conditions) :
               i < j =>
                   tResponse.inferred_criteria.conditions[i]
                       # tResponse.inferred_criteria.conditions[j]
        /\ \A i \in 1..(Len(tResponse.inferred_criteria.conditions) - 1) :
               C17_FirstSeenBefore(tResponse.inferred_criteria.conditions[i],
                                   tResponse.inferred_criteria.conditions[i + 1])
        /\ \A i \in 1..Len(tResponse.inferred_criteria.conditions) :
               C17_Places(tResponse.inferred_criteria.conditions[i]) # {}
        /\ \A k \in 1..Len(Sample) : \A a \in C17_Starts(C17_Text(k)) :
               ~IsTrimOf(<<>>, C17_Piece(C17_Text(k), a)) =>
                   \E i \in 1..Len(tResponse.inferred_criteria.conditions) :
                       IsTrimOf(tResponse.inferred_criteria.conditions[i],
                                C17_Piece(C17_Text(k), a))

\* "cold,, Flu " followed by "flu, cold": cold is kept once, at its first
\* place, and Flu and flu are two conditions
C17_Witness ==
    /\ AnalysisCompleted
    /\ Len(Sample) = 2
    /\ C17_Text(1) = <<"c", "o", "l", "d", ",", ",", " ", "F", "l", "u", " ">>
    /\ C17_Text(2) = <<"f", "l", "u", ",", " ", "c", "o", "l", "d">>
    /\ tResponse.inferred_criteria.conditions =
           <<<<"c", "o", "l", "d">>, <<"F", "l", "u">>, <<"f", "l", "u">>>>

(***************************************************************************)
(* C18.  The patient limit.                                                *)
(***************************************************************************)
\* a doubled median without its fractional half, the half dropped toward zero
C18_Truncated(twice) ==
    IF twice >= 0 THEN twice \div 2 ELSE (twice + 1) \div 2

\* C18 as stated: patient_limit is min(E, max_patients), E being the
\* enrollment median when one is defined and 100 otherwise, so it exceeds
\* neither max_patients nor a defined enrollment median.
C18_LimitIsMinOfMedianAndCap ==
    AnalysisCompleted =>
        /\ 2 * tResponse.inferred_criteria.patient_limit_used =
               Min({IF ReportedMedian("enrollment").defined
                    THEN ReportedMedian("enrollment").twice
                    ELSE 2 * DefaultPatientLimit,
                    2 * tRequest.max_patients})
        /\ tResponse.inferred_criteria.patient_limit_used <= tRequest.max_patients
        /\ ReportedMedian("enrollment").defined =>
               2 * tResponse.inferred_criteria.patient_limit_used
                   <= ReportedMedian("enrollment").twice

\* C18: patient_limit is min(E, max_patients), E being the enrollment median
\* cut to an integer toward zero when one is defined and 100 otherwise; it
\* never exceeds max_patients, and never exceeds a defined enrollment median
\* that is not negative.
C18_LimitIsMinOfTruncatedMedianAndCap ==
    AnalysisCompleted =>
        /\ tResponse.inferred_criteria.patient_limit_used =
               Min({IF ReportedMedian("enrollment").defined
                    THEN C18_Truncated(ReportedMedian("enrollment").twice)
                    ELSE DefaultPatientLimit,
                    tRequest.max_patients})
        /\ tResponse.inferred_criteria.patient_limit_used <= tRequest.max_patients
        /\ (ReportedMedian("enrollment").defined
                /\ ReportedMedian("enrollment").twice >= 0) =>
               2 * tResponse.inferred_criteria.patient_limit_used
                   <= ReportedMedian("enrollment").twice

\* the enrollments 100 and -1 gave the median 49.5 and, below the cap of 200,
\* the limit 49
C18_Witness ==
    /\ AnalysisCompleted
    /\ tRequest.max_patients = DefaultMaxPatients
    /\ ReportedMedian("enrollment") = [defined |-> TRUE, twice |-> 99]
    /\ tResponse.inferred_criteria.patient_limit_used = 49

(***************************************************************************)
(* C19.  When the patient lookup is made.                                  *)
(***************************************************************************)
\* the analysis got as far as the medians and found one for both ages
C19_BothAgesInferred ==
    /\ SearchReturned
    /\ ~RaisesOverflow(Sample)
    /\ ParsedValues(Sample, "minimum_age") # <<>>
    /\ ParsedValues(Sample, "maximum_age") # <<>>

\* C19: an analysis calls the patient lookup if and only if it inferred both a
\* minimum-age and a maximum-age median; when either is undefined the result
\* has no matched patient, an empty demographics summary and an empty
\* feasibility, and still carries the inferred criteria and the similar
\* trials.
C19_LookupIffBothAgeMedians ==
    Analyzed =>
        /\ tDbCalls # <<>> <=> C19_BothAgesInferred
        /\ (SearchReturned /\ ~RaisesOverflow(Sample) /\ ~C19_BothAgesInferred) =>
               /\ AnalysisCompleted
               /\ tResponse.patient_recruitment.matched_patients = <<>>
               /\ tResponse.patient_recruitment.demographics_summary = EmptyDict
               /\ tResponse.patient_recruitment.feasibility = EmptyDict
               /\ \A field \in NumericFields :
                      ReportedMedian(field) = median(ParsedValues(Sample, field))
               /\ Len(tResponse.similar_trials) = Len(Sample)
               /\ \A k \in 1..Len(Sample) :
                      tResponse.similar_trials[k].trial = Sample[k]

\* a sample of two trials with a minimum-age median and an enrollment median
\* but no maximum age: no lookup was made and the result is the degenerate one
C19_Witness ==
    /\ AnalysisCompleted
    /\ Len(Sample) = 2
    /\ ReportedMedian("minimum_age").defined
    /\ ~ReportedMedian("maximum_age").defined
    /\ ReportedMedian("enrollment").defined
    /\ tDbCalls = <<>>
    /\ tResponse.patient_recruitment = NoRecruitment
    /\ Len(tResponse.similar_trials) = 2

(***************************************************************************)
(* C20.  Collaborator failures at the tool boundary.                       *)
(***************************************************************************)
\* the failures of the collaborator calls the request made
C20_FailuresSeen ==
    ({tSearches[i].outcome.raised : i \in 1..Len(tSearches)}
         \cup {tDbCalls[i].outcome.raised : i \in 1..Len(tDbCalls)})
        \ {"none"}

\* the request fields the error payload of each tool repeats
C20_EchoesRequest ==
    CASE tRequest.tool = "search_trials" -> tResponse.query = tRequest.query
      [] tRequest.tool = "find_eligible_patients" ->
             /\ tResponse.criteria.age_min = tRequest.age_min
             /\ tResponse.criteria.age_max = tRequest.age_max
             /\ tResponse.criteria.required_conditions.l
                    = tRequest.required_conditions.l
      [] tRequest.tool = "analyze_trials_and_match_patients" ->
             tResponse.query = tRequest.query

\* the message each tool puts before the text of the exception
C20_Message ==
    CASE tRequest.tool = "search_trials" -> "Search failed"
      [] tRequest.tool = "find_eligible_patients" -> "Patient search failed"
      [] tRequest.tool = "analyze_trials_and_match_patients" -> "Analysis failed"

\* C20: whichever of the three tools served the request, no exception left it,
\* and when its retrieval or persistence collaborator failed the response is
\* a payload holding an error message for that failure and the echo of the
\* request (the query, or the criteria of a patient search).
C20_FailuresBecomeErrorPayloads ==
    tRequest # EmptyDict =>
        /\ tEscaped = "none"
        /\ tResponse # EmptyDict
        /\ C20_FailuresSeen # {} =>
               /\ IsError(tResponse)
               /\ tResponse.error[1] = C20_Message
               /\ tResponse.error[2] \in C20_FailuresSeen
               /\ C20_EchoesRequest

\* an analysis whose search returned two trials and whose patient lookup
\* timed out: the response is the error payload with the query
C20_Witness ==
    /\ Analyzed
    /\ SearchReturned
    /\ Len(Sample) = 2
    /\ tDbCalls # <<>>
    /\ tDbCalls[1].outcome.raised = "TimeoutError"
    /\ tResponse = [error |-> <<"Analysis failed", "TimeoutError">>,
                    query |-> tRequest.query]
    /\ tEscaped = "none"


(***************************************************************************)
(* C21.  chunk_index and the metadata of the nodes create_nodes returns.   *)
(***************************************************************************)
\* the entry of the file that was sampled j-th
C21_Content(j) == nData[nSampled[j]]

\* the chunks create_chunks returns for it, in order
C21_Chunks(j) ==
    create_chunks(C21_Content(j).document,
                  parse(C21_Content(j).document, DEFAULT_SECTIONS).sections,
                  NodesMaxLength)

\* the number of nodes the first j chunk lists of cs make
RECURSIVE C21_Offset(_, _)
C21_Offset(cs, j) == IF j = 0 THEN 0 ELSE C21_Offset(cs, j - 1) + Len(cs[j])

\* the exclusion list of a document: condition_1..condition_N with N its
\* conditions_count (none without one), and the two count fields
C21_Exclusion(metadata) ==
    {ConditionKey(k) :
        k \in 1..(IF ConditionsCountKey \in DOMAIN metadata
                  THEN metadata[ConditionsCountKey].n ELSE 0)}
        \cup {InterventionsCountKey, OutcomesCountKey}

\* node carries chunk_index idx and otherwise the metadata minus the exclusion list
C21_Carries(node, metadata, idx) ==
    /\ ChunkIndexKey \in DOMAIN node.metadata
    /\ node.metadata[ChunkIndexKey] = PyInt(idx)
    /\ DOMAIN node.metadata \cap C21_Exclusion(metadata) = {}
    /\ DOMAIN node.metadata \ {ChunkIndexKey}
           = DOMAIN metadata \ (C21_Exclusion(metadata) \cup {ChunkIndexKey})
    /\ \A k \in DOMAIN node.metadata \ {ChunkIndexKey} : node.metadata[k] = metadata[k]

\* nodes are, document by document, the chunk lists cs with their indices
C21_NodesAre(nodes, cs) ==
    /\ Len(nodes) = C21_Offset(cs, Len(cs))
    /\ \A j \in 1..Len(cs) :
           \A i \in 1..Len(cs[j]) :
               /\ nodes[C21_Offset(cs, j - 1) + i].text = cs[j][i].text
               /\ C21_Carries(nodes[C21_Offset(cs, j - 1) + i],
                              C21_Content(j).metadata, i - 1)

\* C21: when create_nodes returns, the nodes are, document by document in the
\* sampled order, that document's chunks in create_chunks order: the i-th
\* chunk of a document (counting from 0) is handed over with chunk_index i, so
\* the indices of a document of n chunks are 0..n-1 without gap or repeat, and
\* its metadata is the document's metadata without condition_1..condition_N
\* (N = conditions_count), interventions_count and outcomes_count.
C21_ChunkIndexAndMetadata ==
    (nOutcome # EmptyDict /\ nOutcome.raised = "none") =>
        C21_NodesAre(nOutcome.value, [j \in 1..Len(nSampled) |-> C21_Chunks(j)])

\* two documents were handed over, one of several chunks whose metadata lost
\* condition keys and count fields, the nodes of the second starting at 0 again
C21_Witness ==
    /\ nOutcome # EmptyDict
    /\ nOutcome.raised = "none"
    /\ Len(nSampled) = 2
    /\ Len(C21_Chunks(1)) > 1
    /\ Len(C21_Chunks(2)) > 0
    /\ ConditionKey(2) \in DOMAIN C21_Content(1).metadata
    /\ InterventionsCountKey \in DOMAIN C21_Content(1).metadata
    /\ C21_Content(1).metadata[ConditionsCountKey] = PyInt(2)
    /\ nOutcome.value[Len(C21_Chunks(1))].metadata[ChunkIndexKey]
           = PyInt(Len(C21_Chunks(1)) - 1)
    /\ nOutcome.value[Len(C21_Chunks(1)) + 1].metadata[ChunkIndexKey] = PyInt(0)

(***************************************************************************)
(* C22.  The low-budget fallback of the long-content splitter.             *)
(***************************************************************************)
\* the splitter ran on the section: it is not empty and its formatted text
\* is longer than max_length
C22_Split(key) == ContentOf(key) # <<>> /\ TooLong(key)

\* the header followed by the first 100 characters of the content
C22_FallbackChunk(key) == Chunk(HeaderOf(key) \o Prefix(ContentOf(key), FallbackChars))

C22_WitnessAbove ==
    /\ fresh
    /\ \E key \in ScalarKeys :
           /\ C22_Split(key)
           /\ RemainingOf(key) > FallbackRemaining
           /\ Len(ChunksOf(chunks, key)) >= 2

(***************************************************************************)
(* C23.  Greedy packing of the long-content splitter.                      *)
(***************************************************************************)
\* the content of the i-th chunk of the section
C23_Body(cs, key, i) == BodyOf(cs[i], key)

\* the chunk holds whole tokens joined by single spaces, at least one
C23_WholeTokens(body) ==
    /\ SplitWords(body) # <<>>
    /\ body = Join(SplitWords(body), <<" ">>)

\* the chunk before position i + 1 could not take the next token: its
\* content, a space and that token are longer than the budget
C23_Maximal(cs, key, i) ==
    Len(C23_Body(cs, key, i)) + 1 + Len(SplitWords(C23_Body(cs, key, i + 1))[1])
        > RemainingOf(key)

\* the chunks cs of a section are a greedy packing of its tokens
C23_Greedy(cs, key) ==
    /\ TokensOfChunks(cs, key) = SplitWords(ContentOf(key))
    /\ \A i \in 1..Len(cs) : C23_WholeTokens(C23_Body(cs, key, i))
    /\ \A i \in 1..(Len(cs) - 1) : C23_Maximal(cs, key, i)

\* C23 as stated: for a section handed to the splitter with remaining above
\* 100, the chunks hold the section's tokens unsplit and in order, each chunk
\* at least one, and every chunk but the last is maximal: its content, a
\* space and the next token together are strictly longer than remaining.
C23_GreedyAndMaximal ==
    fresh =>
        \A key \in ScalarKeys :
            (C22_Split(key) /\ RemainingOf(key) > FallbackRemaining) =>
                C23_Greedy(ChunksOf(chunks, key), key)

(***************************************************************************)
(* C24.  Outcome entries, marker by marker.                                *)
(***************************************************************************)
\* the outcomes block parse() hands to _extract_outcomes
C24_Block == extract_between(text, OutcomesM, None).v

\* the positions of the "- PRIMARY:" / "- SECONDARY:" markers of the block
C24_Markers(s) == {p \in 1..Len(s) : MarkerType(s, p) # ""}

\* the text of the marker at p: what stands between it and the next marker
\* or the end of the block, trimmed
C24_TextOf(s, p) ==
    Strip(Slice(s, MarkerEnd(s, p),
                Min({q \in C24_Markers(s) : q > p} \cup {Len(s) + 1}) - 1))

\* the non-empty texts of the markers of one type at or after position from,
\* in document order
RECURSIVE C24_Entries(_, _, _)
C24_Entries(s, type, from) ==
    IF {p \in C24_Markers(s) : p >= from} = {} THEN <<>>
    ELSE IF MarkerType(s, Min({p \in C24_Markers(s) : p >= from})) = type
            /\ C24_TextOf(s, Min({p \in C24_Markers(s) : p >= from})) # <<>>
         THEN <<C24_TextOf(s, Min({p \in C24_Markers(s) : p >= from}))>>
                  \o C24_Entries(s, type, Min({p \in C24_Markers(s) : p >= from}) + 1)
         ELSE C24_Entries(s, type, Min({p \in C24_Markers(s) : p >= from}) + 1)

\* C24 as stated: after parse, primary_outcomes holds one entry for every
\* "- PRIMARY:" marker of the outcomes block that is followed by non-empty
\* text, the text up to the next marker or the end of the block, in document
\* order, and secondary_outcomes the same for "- SECONDARY:"; a marker with
\* empty content adds no entry and leaves the entries of the later markers
\* as they are.
C24_OneEntryPerNonEmptyMarker ==
    (parsed /\ raised = "none") =>
        /\ EntriesOf("primary_outcomes") = C24_Entries(C24_Block, "PRIMARY", 1)
        /\ EntriesOf("secondary_outcomes") = C24_Entries(C24_Block, "SECONDARY", 1)

(***************************************************************************)
(* C25.  The title section.                                                *)
(***************************************************************************)
\* the line without a leading "Title:", trimmed; the whole line, trimmed,
\* when it does not start with "Title:"
C25_PrefixStripped(line) ==
    IF HasPrefix(line, TitleNoSp)
    THEN Strip(Slice(line, Len(TitleNoSp) + 1, Len(line)))
    ELSE Strip(line)

\* C25 as stated: after parse the title is the first line of the document
\* with only a leading "Title:" removed and the surrounding whitespace
\* trimmed: a later "Title:" in the first line stays in the title, and a
\* first line that does not start with "Title:" is the title as it is,
\* trimmed.
C25_TitleIsFirstLineWithoutPrefix ==
    (parsed /\ raised = "none") => Title = C25_PrefixStripped(FirstLine(text))

(***************************************************************************)
(* C26.  Target enrollment and availability ratio.                         *)
(***************************************************************************)
\* the analysis made the patient lookup and returned its result
C26_PatientsRetrieved == AnalysisCompleted /\ tDbCalls # <<>>

C26_Feasibility == tResponse.patient_recruitment.feasibility

C26_Matched == Len(tResponse.patient_recruitment.matched_patients)

\* the enrollment median if one is defined, patient_limit otherwise (doubled)
C26_Target ==
    IF ReportedMedian("enrollment").defined
    THEN ReportedMedian("enrollment").twice
    ELSE 2 * tResponse.inferred_criteria.patient_limit_used

\* matched / target as it is reported, in hundredths
C26_Quotient(matched, target2) ==
    IF matched = 0 THEN 0 ELSE Round2(2 * matched, target2)

\* C26: whenever the lookup was made and returned, target_enrollment is the
\* enrollment median if one is defined and patient_limit otherwise, and the
\* availability ratio is matched_count / target_enrollment, and 0 when
\* target_enrollment is 0; the division never fails: with the sample read
\* and the lookup answered, the analysis returns its result.
C26_TargetAndRatio ==
    /\ C26_PatientsRetrieved =>
           /\ C26_Feasibility.target_enrollment2 = C26_Target
           /\ C26_Feasibility.available_patients = C26_Matched
           /\ C26_Feasibility.availability_ratio =
                  IF C26_Target = 0 THEN 0 ELSE C26_Quotient(C26_Matched, C26_Target)
    /\ (AnalyzedWithoutFailure /\ ~RaisesOverflow(Sample)) => AnalysisCompleted

\* three patients against the enrollment median 41: the ratio 3/41 is
\* reported as 0.07
C26_Witness ==
    /\ C26_PatientsRetrieved
    /\ ReportedMedian("enrollment") = [defined |-> TRUE, twice |-> 82]
    /\ C26_Matched = 3
    /\ C26_Feasibility.target_enrollment2 = 82
    /\ C26_Feasibility.availability_ratio = 7

\* the enrollment median is 0: the limit, the target and the ratio are 0
C26_WitnessZeroTarget ==
    /\ C26_PatientsRetrieved
    /\ ReportedMedian("enrollment") = [defined |-> TRUE, twice |-> 0]
    /\ C26_Feasibility.target_enrollment2 = 0
    /\ C26_Feasibility.availability_ratio = 0

(***************************************************************************)
(* C27.  create_chunks only reads.                                         *)
(***************************************************************************)
\* a step that is a create_chunks() call leaves the section map, the text
\* and max_length as they were
C27_CallOnlyReads ==
    calls' = calls + 1 =>
        /\ sections' = sections
        /\ text' = text
        /\ max_length' = max_length

\* two calls with nothing changed between them returned the same chunks
C27_SameChunksAgain == (calls >= 2 /\ sameInput) => chunks = prevChunks

\* C27: every create_chunks call, whichever paths it takes, leaves the
\* section map, the document text and max_length unchanged, and a call
\* repeated on the unchanged object returns the same chunk sequence.
C27_CreateChunksOnlyReads == [](C27_SameChunksAgain) /\ [][C27_CallOnlyReads]_vars

\* a second call returned the same chunks again for a document whose
\* sections went through the splitter and whose outcomes were packed
C27_Witness ==
    /\ calls = 2
    /\ sameInput
    /\ parsed
    /\ chunks = prevChunks
    /\ \E key \in ScalarKeys : C22_Split(key) /\ Len(ChunksOf(chunks, key)) >= 2
    /\ Len(EntriesOf("primary_outcomes")) >= 2
    /\ Len(ChunksOf(chunks, "primary_outcomes")) >= 1

(***************************************************************************)
(* C29.  create_chunks on an object that was never parsed.                 *)
(***************************************************************************)
\* what parse() followed by create_chunks() returns for the document
C29_ParsedChunks == build_chunks(parse(text, DEFAULT_SECTIONS).sections, max_length)

\* C29 as stated: create_chunks called on a constructed object on which parse
\* has not run parses the document itself: whatever the document, it returns
\* the chunks that parse followed by create_chunks returns.
C29_UnparsedCallParses ==
    (calls >= 1 /\ ~parsed) => chunks = C29_ParsedChunks

(***************************************************************************)
(* C28.  The verdicts an analysis can reach.                               *)
(***************************************************************************)
\* the verdict of the analysis
C28_Verdict(level, risk) ==
    /\ C26_Feasibility.feasibility_level = level
    /\ C26_Feasibility.recruitment_risk = risk

\* the matched patients are exactly as many as the target enrollment
C28_RatioIsOne ==
    C26_Feasibility.target_enrollment2 > 0
        /\ 2 * C26_Matched = C26_Feasibility.target_enrollment2

\* C28: the lookup returning at most `limit` patients, an analysis never
\* finds more patients than its target enrollment, so the availability ratio
\* never exceeds 1.0, the level is never HIGH and the risk never Minimal or
\* Moderate: the verdict is MEDIUM/High when the ratio is exactly 1.0 and
\* LOW/High otherwise.
C28_NeverAboveOne ==
    C26_PatientsRetrieved =>
        /\ C26_Feasibility.target_enrollment2 > 0 =>
               2 * C26_Matched <= C26_Feasibility.target_enrollment2
        /\ C26_Feasibility.availability_ratio <= 100
        /\ IF C28_RatioIsOne THEN C28_Verdict("MEDIUM", "High")
           ELSE C28_Verdict("LOW", "High")

\* two patients for a target of two: MEDIUM with High risk
C28_Witness ==
    /\ C26_PatientsRetrieved
    /\ C26_Matched = 2
    /\ C26_Feasibility.target_enrollment2 = 4
    /\ C26_Feasibility.availability_ratio = 100
    /\ C28_Verdict("MEDIUM", "High")

(***************************************************************************)
(* C30.  The verdict against the reported ratio.                           *)
(***************************************************************************)
\* the level the cut list assigns to a ratio given in hundredths
C30_LevelOf(hundredths) ==
    IF hundredths >= 10 * HighRatio THEN "HIGH"
    ELSE IF hundredths >= 10 * MediumRatio THEN "MEDIUM"
    ELSE "LOW"

\* the risk the cut list assigns to a ratio given in hundredths
C30_RiskOf(hundredths) ==
    IF hundredths >= 10 * MinimalRatio THEN "Minimal"
    ELSE IF hundredths >= 10 * ModerateRatio THEN "Moderate"
    ELSE "High"

\* C30 as stated: in every feasibility result the level and the risk are the
\* ones the cut lists assign to the availability_ratio reported in that
\* result (the ratio rounded to two decimals): a result reporting 1.0 reports
\* MEDIUM, one reporting less than 1.0 reports LOW.
C30_VerdictMatchesReportedRatio ==
    fResult # EmptyDict =>
        /\ fResult.feasibility_level = C30_LevelOf(fResult.availability_ratio)
        /\ fResult.recruitment_risk = C30_RiskOf(fResult.availability_ratio)
====
